---- MODULE Spec2Model ----
(***************************************************************************)
(* Lien extraction, classification, priority analysis and investment       *)
(* recommendation of biddeed-conversational-ai.                            *)
(*                                                                         *)
(*   Spec          AcclaimWebClient (src/src/integrations/                 *)
(*                 firecrawl_client.py): _parse_liens, then                *)
(*                 analyze_lien_priority on the list the caller holds.     *)
(*   SpecWorkflow  IntegratedLienDiscovery (src/src/workflows/             *)
(*                 integrated_lien_discovery.py): discover_liens with      *)
(*                 _get_owner_from_bcpao, _search_acclaimweb and           *)
(*                 _combine_results.                                       *)
(*   SpecPipeline  both of the above, one after the other.                 *)
(*   SpecExtract   _parse_liens on lines given as their '|'-separated      *)
(*                 fields, the line pattern matched field by field, then   *)
(*                 analyze_lien_priority.                                  *)
(*   SpecAmount    _parse_amount on texts of every shape.                  *)
(*   SpecGrantors  discover_liens on agent documents that name their       *)
(*                 grantor.                                                *)
(*   SpecSearch    FirecrawlClient.scrape, then AcclaimWebClient            *)
(*                 .search_liens, over every HTTP outcome and page.        *)
(*   SpecShaped    discover_liens on agent documents that lack a key.      *)
(*   SpecAgent     the orchestrator (src/agents/orchestrator.py): the      *)
(*                 eight nodes run by the compiled graph or one after the  *)
(*                 other.                                                  *)
(*                                                                         *)
(* Conventions.  Text is a sequence of one-character strings.  A Python    *)
(* value that may be None is a sequence of length 0 (None) or 1.  Money is *)
(* a whole number of dollars: the amount group of the line pattern is      *)
(* [\d,]+, and on whole numbers below 2^53 the float arithmetic of the     *)
(* source is exact; the valuations drawn below are ones for which          *)
(* arv * 0.70 is exact in binary floating point as well.                   *)
(***************************************************************************)
EXTENDS Integers, Sequences, FiniteSets, TLC

VARIABLES
    pc,          \* position of the caller in the run
    markdown,    \* AcclaimWeb path: the scraped text, one entry per line
    liens,       \* AcclaimWeb path: the list of lien dicts the caller holds
    given,       \* AcclaimWeb path: the list as it was passed to the analysis
    analysis,    \* AcclaimWeb path: <<>> or <<the dict analyze_lien_priority returned>>
    bcpao_data,  \* workflow: <<>> or <<the dict _get_owner_from_bcpao returned>>
    acclaimweb_result, \* workflow: <<>> or <<the dict _search_acclaimweb returned>>
    result,      \* workflow: <<>> or <<the dict discover_liens returned>>
    repeated,    \* workflow: <<>> or <<the dict a second _combine_results call returned>>
    now,         \* workflow: the clock datetime.utcnow() reads
    amount_str,  \* _parse_amount: the text passed in
    amount,      \* _parse_amount: <<>> or <<the value returned>>
    request,     \* search_liens: <<>> or <<the arguments of the call>>
    search_text, \* search_liens: <<>> or <<the text of the write action>>
    scraped,     \* search_liens: <<>> or <<how FirecrawlClient.scrape ended>>
    search_result, \* search_liens: <<>> or <<the dict search_liens returned>>
    path,        \* run_agent: <<>> or the path taken and the nodes called so far
    world,       \* run_agent: <<>> or <<the query and what the services answer>>
    state        \* run_agent: <<>> or <<the AgentState dict>>

acclaimVars == <<markdown, liens, given, analysis>>
workflowVars == <<bcpao_data, acclaimweb_result, result, repeated, now>>
amountVars == <<amount_str, amount>>
searchVars == <<request, search_text, scraped, search_result>>
agentVars == <<path, world, state>>
vars == <<pc, acclaimVars, workflowVars, amountVars, searchVars, agentVars>>

(***************************************************************************)
(* Bounds of the model.                                                    *)
(***************************************************************************)
MaxLiens == 3
MaxLines == 4
MaxDocs == 3

(***************************************************************************)
(* Generic helpers.                                                        *)
(***************************************************************************)
SeqsUpTo(S, n) == UNION {[1..k -> S] : k \in 0..n}

RECURSIVE SumSeq(_)
\* sum(...) of Python over a list of numbers, left to right from 0
SumSeq(s) == IF s = <<>> THEN 0 ELSE SumSeq(SubSeq(s, 1, Len(s) - 1)) + s[Len(s)]

Max(a, b) == IF a >= b THEN a ELSE b

(***************************************************************************)
(* Text.                                                                   *)
(***************************************************************************)
LowerCase == <<"a","b","c","d","e","f","g","h","i","j","k","l","m",
               "n","o","p","q","r","s","t","u","v","w","x","y","z">>
UpperCase == <<"A","B","C","D","E","F","G","H","I","J","K","L","M",
               "N","O","P","Q","R","S","T","U","V","W","X","Y","Z">>

UpperChar(c) ==
    IF \E i \in 1..Len(LowerCase) : LowerCase[i] = c
    THEN UpperCase[CHOOSE i \in 1..Len(LowerCase) : LowerCase[i] = c]
    ELSE c

\* str.upper()
Upper(s) == [i \in 1..Len(s) |-> UpperChar(s[i])]

\* keyword in text
Contains(text, keyword) ==
    \E i \in 0..(Len(text) - Len(keyword)) :
        SubSeq(text, i + 1, i + Len(keyword)) = keyword

HOA_KEYWORDS ==
    { <<"H","O","M","E","O","W","N","E","R">>,
      <<"H","O","A">>,
      <<"A","S","S","O","C","I","A","T","I","O","N">>,
      <<"C","O","N","D","O">>,
      <<"C","O","M","M","U","N","I","T","Y">> }

\* the keywords looked for in the text as written
IsHoaGrantor_AsWritten(grantor) == \E k \in HOA_KEYWORDS : Contains(grantor, k)

\* any(keyword in lien['grantor'].upper() for keyword in [...])
IsHoaGrantor(grantor) == \E k \in HOA_KEYWORDS : Contains(Upper(grantor), k)

(***************************************************************************)
(* Recorded dates.  A date field is the text MM/DD/YYYY, kept as           *)
(* <<MM, DD, YYYY>>; datetime.strptime(x, '%m/%d/%Y') orders by year,      *)
(* then month, then day.                                                   *)
(***************************************************************************)
Dates == { <<12, 1, 2022>>, <<1, 15, 2023>> }

\* the dates compared as the texts MM/DD/YYYY they are written as
DateBefore_AsText(d, e) ==
    \/ d[1] < e[1]
    \/ d[1] = e[1] /\ d[2] < e[2]
    \/ d[1] = e[1] /\ d[2] = e[2] /\ d[3] < e[3]

\* datetime.strptime(d, '%m/%d/%Y') < datetime.strptime(e, '%m/%d/%Y')
DateBefore(d, e) ==
    \/ d[3] < e[3]
    \/ d[3] = e[3] /\ d[1] < e[1]
    \/ d[3] = e[3] /\ d[1] = e[1] /\ d[2] < e[2]

\* the list is in ascending order of recorded date
SortedByDate(s) ==
    \A i \in 1..Len(s), j \in 1..Len(s) :
        i < j => ~DateBefore(s[j].recorded_date, s[i].recorded_date)

\* x put into the date-sorted list s behind every entry that is not later
InsertByDate(s, x) ==
    LET k == Cardinality({i \in 1..Len(s) : ~DateBefore(x.recorded_date, s[i].recorded_date)})
    IN  SubSeq(s, 1, k) \o <<x>> \o SubSeq(s, k + 1, Len(s))

RECURSIVE SortByDate(_)
\* liens.sort(key=lambda x: datetime.strptime(x['recorded_date'], '%m/%d/%Y')):
\* list.sort is stable
SortByDate(s) ==
    IF s = <<>> THEN <<>>
    ELSE InsertByDate(SortByDate(SubSeq(s, 1, Len(s) - 1)), s[Len(s)])

(***************************************************************************)
(* Amounts.                                                                *)
(***************************************************************************)
Digits == <<"0","1","2","3","4","5","6","7","8","9">>

IsDigit(c) == \E i \in 1..Len(Digits) : Digits[i] = c

DigitValue(c) == (CHOOSE i \in 1..Len(Digits) : Digits[i] = c) - 1

RECURSIVE DecimalValue(_)
\* the value of a text of decimal digits
DecimalValue(s) ==
    IF s = <<>> THEN 0
    ELSE 10 * DecimalValue(SubSeq(s, 1, Len(s) - 1)) + DigitValue(s[Len(s)])

NotCommaOrDollar(c) == c # "," /\ c # "$"

RECURSIVE Strip(_)
\* str.strip() on blanks
Strip(s) ==
    IF s = <<>> THEN s
    ELSE IF Head(s) = " " THEN Strip(Tail(s))
    ELSE IF s[Len(s)] = " " THEN Strip(SubSeq(s, 1, Len(s) - 1))
    ELSE s

RECURSIVE Pow10(_)
Pow10(n) == IF n = 0 THEN 1 ELSE 10 * Pow10(n - 1)

AllDigits(s) == \A i \in 1..Len(s) : IsDigit(s[i])

\* the decimal literals float() accepts among the texts drawn here: an
\* optional minus sign, then digits with at most one decimal point and at
\* least one digit.  (float() also accepts "+", exponents, underscores between
\* digits, "inf" and "nan"; the texts drawn here hold none of these
\* characters.)  The result is <<>> for ValueError, otherwise
\* <<[units, scale]>> for the value units / 10^scale.
FloatOf(s) ==
    LET neg  == s # <<>> /\ Head(s) = "-"
        body == IF neg THEN Tail(s) ELSE s
        dots == {i \in 1..Len(body) : body[i] = "."}
        sign == IF neg THEN -1 ELSE 1
    IN  IF dots = {}
        THEN IF body # <<>> /\ AllDigits(body)
             THEN <<[units |-> sign * DecimalValue(body), scale |-> 0]>>
             ELSE <<>>
        ELSE LET d     == CHOOSE i \in dots : TRUE
                 whole == SubSeq(body, 1, d - 1)
                 frac  == SubSeq(body, d + 1, Len(body))
             IN  IF Cardinality(dots) = 1 /\ AllDigits(whole) /\ AllDigits(frac)
                    /\ Len(whole) + Len(frac) > 0
                 THEN <<[units |-> sign * DecimalValue(whole \o frac),
                         scale |-> Len(frac)]>>
                 ELSE <<>>

parse_amount_OfDigitsKept(text) ==
    LET kept == SelectSeq(text, IsDigit)
    IN  [units |-> DecimalValue(kept), scale |-> 0]

\* _parse_amount: amount_str.replace(',', '').replace('$', '').strip(), then
\* float(); ValueError gives 0.0.  The value is units / 10^scale.
parse_amount_value(text) ==
    LET cleaned == Strip(SelectSeq(text, NotCommaOrDollar))
        parsed  == FloatOf(cleaned)
    IN  IF parsed = <<>> THEN [units |-> 0, scale |-> 0] ELSE parsed[1]

\* _parse_amount in whole dollars, as the lien dicts of this model hold it
parse_amount(text) ==
    LET v == parse_amount_value(text)
    IN  v.units \div Pow10(v.scale)

(***************************************************************************)
(* AcclaimWebClient: the inputs.                                           *)
(***************************************************************************)
WELLS_FARGO == <<"W","E","L","L","S"," ","F","A","R","G","O">>
SUNSET_HOA == <<"S","U","N","S","E","T"," ","H","O","A">>

Types == {"MTG", "LIEN", "JUDG"}
Creditors == {WELLS_FARGO, SUNSET_HOA}

\* what each creditor is owed in the records a caller builds (the tests' data)
OwedTo(g) == IF g = WELLS_FARGO THEN 250000 ELSE 5000

\* a lien dict as a caller of analyze_lien_priority builds it (the tests'
\* shape: type, grantor, amount, recorded_date, is_hoa)
LienRecords ==
    { [type |-> t, grantor |-> g, amount |-> OwedTo(g), recorded_date |-> d,
       is_hoa |-> IsHoaGrantor(g)] :
        t \in Types, g \in Creditors, d \in Dates }

\* A line of the scraped text: one the pattern does not match, or the eight
\* groups of a match.  Group 5 keeps the blank before the next bar.
JOHN_DOE == <<"J","O","H","N"," ","D","O","E">>

NoMatchLine == [matched |-> FALSE]

MatchLine(t, instr, g, d, amt) ==
    [matched |-> TRUE, g1 |-> t, g2 |-> instr, g3 |-> "1234", g4 |-> "567",
     g5 |-> g \o <<" ">>, g6 |-> JOHN_DOE \o <<" ">>, g7 |-> d, g8 |-> amt]

Lines ==
    { NoMatchLine,
      MatchLine("MTG", "2023-12345", WELLS_FARGO, <<1, 15, 2023>>,
                <<"2","5","0",",","0","0","0">>),
      MatchLine("LIEN", "2022-45678", SUNSET_HOA, <<12, 1, 2022>>,
                <<"5",",","0","0","0">>),
      MatchLine("JUDG", "2023-00077", WELLS_FARGO, <<1, 15, 2023>>,
                <<"5","0","0","0">>),
      MatchLine("MTG", "2022-00031", SUNSET_HOA, <<12, 1, 2022>>,
                <<",">>) }

(***************************************************************************)
(* AcclaimWebClient._parse_liens.                                          *)
(***************************************************************************)
(***************************************************************************)
(* The line pattern.  A line of the scraped text is the sequence of its    *)
(* fields, the texts between its '|' characters; lien_pattern.search finds *)
(* the leftmost run of seven fields that fit.                              *)
(***************************************************************************)
RECURSIVE LStrip(_)
\* what is left after a leading \s*
LStrip(s) == IF s # <<>> /\ Head(s) = " " THEN LStrip(Tail(s)) ELSE s

RECURSIVE RStrip(_)
\* what is left before a trailing \s*
RStrip(s) ==
    IF s # <<>> /\ s[Len(s)] = " " THEN RStrip(SubSeq(s, 1, Len(s) - 1)) ELSE s

Drop(s, n) == SubSeq(s, n + 1, Len(s))

StartsWith(s, w) == Len(s) >= Len(w) /\ SubSeq(s, 1, Len(w)) = w

EndsWith(s, w) == Len(s) >= Len(w) /\ SubSeq(s, Len(s) - Len(w) + 1, Len(s)) = w

\* the longest prefix of decimal digits: a greedy \d+
LeadingDigits(s) ==
    LET n == CHOOSE m \in 0..Len(s) :
                 /\ \A i \in 1..m : IsDigit(s[i])
                 /\ (m = Len(s) \/ ~IsDigit(s[m + 1]))
    IN  SubSeq(s, 1, n)

IsDigitOrComma(c) == IsDigit(c) \/ c = ","

\* the longest prefix of digits and commas: a greedy [\d,]+
LeadingAmount(s) ==
    LET n == CHOOSE m \in 0..Len(s) :
                 /\ \A i \in 1..m : IsDigitOrComma(s[i])
                 /\ (m = Len(s) \/ ~IsDigitOrComma(s[m + 1]))
    IN  SubSeq(s, 1, n)

MTG_TEXT == <<"M","T","G">>
LIEN_TEXT == <<"L","I","E","N">>
JUDG_TEXT == <<"J","U","D","G">>
BOOK_TEXT == <<"B","o","o","k">>
PAGE_TEXT == <<"P","a","g","e">>

\* (MTG|LIEN|JUDG)\s*\| : the field ends with a type and blanks; <<>> when
\* it does not
TypeGroup(field) ==
    LET r == RStrip(field)
    IN  IF EndsWith(r, MTG_TEXT) THEN <<"MTG">>
        ELSE IF EndsWith(r, LIEN_TEXT) THEN <<"LIEN">>
        ELSE IF EndsWith(r, JUDG_TEXT) THEN <<"JUDG">>
        ELSE <<>>

\* \s*(\d{4}-\d+)\s*\|
IsInstrumentField(field) ==
    LET r == Strip(field)
    IN  /\ Len(r) >= 6
        /\ AllDigits(SubSeq(r, 1, 4))
        /\ r[5] = "-"
        /\ AllDigits(Drop(r, 5))

\* Book\s*(\d+)\s*Page\s*(\d+) inside the field: <<>> when the field does
\* not fit, otherwise <<book, page>>
BookPageGroups(field) ==
    LET r     == Strip(field)
        book  == LeadingDigits(LStrip(Drop(r, 4)))
        rest  == LStrip(Drop(LStrip(Drop(r, 4)), Len(book)))
        page  == LStrip(Drop(rest, 4))
    IN  IF /\ StartsWith(r, BOOK_TEXT)
           /\ book # <<>>
           /\ StartsWith(rest, PAGE_TEXT)
           /\ page # <<>>
           /\ AllDigits(page)
        THEN <<book, page>>
        ELSE <<>>

\* \s*(\d{2}/\d{2}/\d{4})\s*\|
IsDateField(field) ==
    LET r == Strip(field)
    IN  /\ Len(r) = 10
        /\ r[3] = "/" /\ r[6] = "/"
        /\ AllDigits(SubSeq(r, 1, 2)) /\ AllDigits(SubSeq(r, 4, 5))
        /\ AllDigits(SubSeq(r, 7, 10))

\* datetime.strptime(text, '%m/%d/%Y') of a text that names a day of the
\* calendar
DateOf(field) ==
    LET r == Strip(field)
    IN  <<DecimalValue(SubSeq(r, 1, 2)), DecimalValue(SubSeq(r, 4, 5)),
          DecimalValue(SubSeq(r, 7, 10))>>

\* \s*\$?([\d,]+) at the start of the last field; what follows is not read
AmountGroup(field) ==
    LET r == LStrip(field)
    IN  IF r # <<>> /\ Head(r) = "$" THEN LeadingAmount(Tail(r))
        ELSE LeadingAmount(r)

\* a pattern that takes any text for the instrument number
FitsAt_AnyInstrument(fields, k) ==
    /\ k + 6 <= Len(fields)
    /\ TypeGroup(fields[k]) # <<>>
    /\ BookPageGroups(fields[k + 2]) # <<>>
    /\ fields[k + 3] # <<>>
    /\ fields[k + 4] # <<>>
    /\ IsDateField(fields[k + 5])
    /\ AmountGroup(fields[k + 6]) # <<>>

\* the seven fields from the k-th on fit the pattern
FitsAt(fields, k) ==
    /\ k + 6 <= Len(fields)
    /\ TypeGroup(fields[k]) # <<>>
    /\ IsInstrumentField(fields[k + 1])
    /\ BookPageGroups(fields[k + 2]) # <<>>
    /\ fields[k + 3] # <<>>
    /\ fields[k + 4] # <<>>
    /\ IsDateField(fields[k + 5])
    /\ AmountGroup(fields[k + 6]) # <<>>

\* match = lien_pattern.search(line): the groups of the leftmost match
Search(fields) ==
    IF \E k \in 1..Len(fields) : FitsAt(fields, k)
    THEN LET k == CHOOSE j \in 1..Len(fields) :
                      /\ FitsAt(fields, j)
                      /\ \A i \in 1..(j - 1) : ~FitsAt(fields, i)
         IN  [matched |-> TRUE,
              g1 |-> TypeGroup(fields[k])[1],
              g2 |-> Strip(fields[k + 1]),
              g3 |-> BookPageGroups(fields[k + 2])[1],
              g4 |-> BookPageGroups(fields[k + 2])[2],
              g5 |-> LStrip(fields[k + 3]),
              g6 |-> LStrip(fields[k + 4]),
              g7 |-> DateOf(fields[k + 5]),
              g8 |-> AmountGroup(fields[k + 6])]
    ELSE NoMatchLine

IsMatch(line) == line.matched

\* the dict built from a match
LienOfMatch(line) ==
    [type |-> line.g1, instrument_number |-> line.g2, book |-> line.g3,
     page |-> line.g4, grantor |-> Strip(line.g5), grantee |-> Strip(line.g6),
     recorded_date |-> line.g7, amount |-> parse_amount(line.g8)]

\* the loop over the lines: liens.append(lien) for every line that matches
Extracted(lines) ==
    LET matches == SelectSeq(lines, IsMatch)
    IN  [i \in 1..Len(matches) |-> LienOfMatch(matches[i])]

HOA_WARNING == "HOA lien may wipe senior mortgages if foreclosed"

\* a detection loop that keeps the upper-cased grantor it compared
ClassifyOne_KeepingUpper(lien) ==
    IF IsHoaGrantor(lien.grantor)
    THEN [is_hoa |-> TRUE, warning |-> HOA_WARNING, grantor |-> Upper(lien.grantor)] @@ lien
    ELSE [is_hoa |-> FALSE, grantor |-> Upper(lien.grantor)] @@ lien

\* the body of the detection loop: is_hoa, and the warning text of an HOA
\* lien, assigned into the dict
ClassifyOne(lien) ==
    IF IsHoaGrantor(lien.grantor)
    THEN [is_hoa |-> TRUE, warning |-> HOA_WARNING] @@ lien
    ELSE [is_hoa |-> FALSE] @@ lien

\* a detection loop that keeps its verdict from one lien to the next
Classify_Carrying(ls) ==
    [i \in 1..Len(ls) |->
        IF \E j \in 1..i : IsHoaGrantor(ls[j].grantor)
        THEN [is_hoa |-> TRUE, warning |-> HOA_WARNING] @@ ls[i]
        ELSE [is_hoa |-> FALSE] @@ ls[i]]

\* for lien in liens: the detection loop
Classify(ls) == [i \in 1..Len(ls) |-> ClassifyOne(ls[i])]

\* _parse_liens(markdown): one dict per matching line, flagged, then sorted
parse_liens(lines) == SortByDate(Classify(Extracted(lines)))

(***************************************************************************)
(* AcclaimWebClient.analyze_lien_priority.                                 *)
(***************************************************************************)
IsMTG(lien) == lien.type = "MTG"
IsJUDG(lien) == lien.type = "JUDG"
\* the LIEN branch taken without looking at the flag
IsHoaLien_IgnoreFlag(lien) == lien.type = "LIEN"

\* elif lien['type'] == 'LIEN': if lien.get('is_hoa'):
IsHoaLien(lien) == lien.type = "LIEN" /\ lien.is_hoa

\* the enumeration index written without the + 1
Ranked_ZeroBased(ls) == [i \in 1..Len(ls) |-> [priority_position |-> i - 1] @@ ls[i]]

\* lien['priority_position'] = idx + 1, written into the caller's dicts
Ranked(ls) == [i \in 1..Len(ls) |-> [priority_position |-> i] @@ ls[i]]

\* the sum taken over the mortgages alone
TotalEncumbrance_MortgagesOnly(ls) ==
    SumSeq([i \in 1..Len(ls) |-> IF ls[i].type = "MTG" THEN ls[i].amount ELSE 0])

\* "total_encumbrance": sum(lien['amount'] for lien in liens)
TotalEncumbrance(ls) == SumSeq([i \in 1..Len(ls) |-> ls[i].amount])

\* analysis['mortgages']
Mortgages(ranked) == SelectSeq(ranked, IsMTG)

\* analysis['hoa_liens']
HoaLiens(ranked) == SelectSeq(ranked, IsHoaLien)

\* analysis['judgments']
Judgments(ranked) == SelectSeq(ranked, IsJUDG)

\* analysis['first_position']: set in the MTG branch when idx == 0
FirstPosition(ranked) ==
    IF Len(ranked) > 0 /\ IsMTG(ranked[1]) THEN <<ranked[1]>> ELSE <<>>

\* the HOA_FORECLOSURE_RISK warnings, appended in the loop
HoaWarnings(ranked) ==
    LET hoa == HoaLiens(ranked)
    IN  [i \in 1..Len(hoa) |->
            [type |-> "HOA_FORECLOSURE_RISK",
             message |-> <<"HOA lien detected: ", hoa[i].grantor,
                           " - may wipe senior mortgages">>,
             lien |-> hoa[i]]]

\* the threshold met by two mortgages already
TitleWarnings_TwoOrMore(ranked) ==
    IF Len(SelectSeq(ranked, IsMTG)) >= 2
    THEN << [type |-> "MULTIPLE_MORTGAGES",
             message |-> <<Len(SelectSeq(ranked, IsMTG)), " mortgages detected - complex title">>,
             count |-> Len(SelectSeq(ranked, IsMTG))] >>
    ELSE <<>>

\* the MULTIPLE_MORTGAGES warning, appended after the loop
TitleWarnings(ranked) ==
    IF Len(Mortgages(ranked)) > 2
    THEN << [type |-> "MULTIPLE_MORTGAGES",
             message |-> <<Len(Mortgages(ranked)), " mortgages detected - complex title">>,
             count |-> Len(Mortgages(ranked))] >>
    ELSE <<>>

\* the title check made before the loop over the liens
Warnings_TitleFirst(ranked) == TitleWarnings(ranked) \o HoaWarnings(ranked)

\* analysis['warnings']
Warnings(ranked) == HoaWarnings(ranked) \o TitleWarnings(ranked)

\* analysis['encumbrance_summary'], present when total_encumbrance > 0
EncumbranceSummary(ranked) ==
    LET total == TotalEncumbrance(ranked)
        first == IF FirstPosition(ranked) # <<>> THEN FirstPosition(ranked)[1].amount ELSE 0
    IN  IF total > 0
        THEN << [total |-> total, first_mortgage |-> first, other_liens |-> total - first] >>
        ELSE <<>>

\* the empty list refused
analyze_lien_priority_RefuseEmpty(ls) ==
    IF ls = <<>>
    THEN [error |-> "no liens"]
    ELSE [total_liens |-> Len(ls),
          total_encumbrance |-> TotalEncumbrance(ls),
          first_position |-> FirstPosition(Ranked(ls)),
          hoa_liens |-> HoaLiens(Ranked(ls)),
          mortgages |-> Mortgages(Ranked(ls)),
          judgments |-> Judgments(Ranked(ls)),
          warnings |-> Warnings(Ranked(ls)),
          encumbrance_summary |-> EncumbranceSummary(Ranked(ls))]

\* the dict analyze_lien_priority(liens) returns
analyze_lien_priority(ls) ==
    LET ranked == Ranked(ls)
    IN  [total_liens |-> Len(ls),
         total_encumbrance |-> TotalEncumbrance(ls),
         first_position |-> FirstPosition(ranked),
         hoa_liens |-> HoaLiens(ranked),
         mortgages |-> Mortgages(ranked),
         judgments |-> Judgments(ranked),
         warnings |-> Warnings(ranked),
         encumbrance_summary |-> EncumbranceSummary(ranked)]

(***************************************************************************)
(* AcclaimWebClient: the run.  A caller either parses scraped text and     *)
(* analyzes the list it got back, or analyzes a list it built itself.      *)
(***************************************************************************)
AmountIdle ==
    /\ amount_str = <<>>
    /\ amount = <<>>

SearchIdle ==
    /\ request = <<>>
    /\ search_text = <<>>
    /\ scraped = <<>>
    /\ search_result = <<>>

AgentIdle ==
    /\ path = <<>>
    /\ world = <<>>
    /\ state = <<>>

WorkflowIdle ==
    /\ bcpao_data = <<>>
    /\ acclaimweb_result = <<>>
    /\ result = <<>>
    /\ repeated = <<>>
    /\ now = 0

Init ==
    /\ \/ /\ pc = "start"
          /\ markdown \in SeqsUpTo(Lines, MaxLines)
          /\ liens = <<>>
       \/ /\ pc = "caller"
          /\ markdown = <<>>
          /\ liens \in SeqsUpTo(LienRecords, MaxLiens)
    /\ given = <<>>
    /\ analysis = <<>>
    /\ WorkflowIdle
    /\ AmountIdle
    /\ SearchIdle
    /\ AgentIdle

\* liens = self._parse_liens(markdown)
ParseLiens ==
    /\ pc = "start"
    /\ liens' = parse_liens(markdown)
    /\ pc' = "parsed"
    /\ UNCHANGED <<amountVars, searchVars, agentVars, markdown, given, analysis, workflowVars>>

\* analysis = acclaimweb.analyze_lien_priority(liens)
AnalyzeLienPriority ==
    /\ pc \in {"parsed", "caller"}
    /\ given' = liens
    /\ liens' = Ranked(liens)
    /\ analysis' = <<analyze_lien_priority(liens)>>
    /\ pc' = "analyzed"
    /\ UNCHANGED <<amountVars, searchVars, agentVars, markdown, workflowVars>>

Next == ParseLiens \/ AnalyzeLienPriority

Spec == Init /\ [][Next]_vars

(***************************************************************************)
(* IntegratedLienDiscovery: the inputs.                                    *)
(***************************************************************************)
CLOSING_COST == 10000
EQUITY_FLOOR == 10000
ARV_PERCENT == 70
MAX_SIMPLE_MORTGAGES == 2

DocAmounts == {50000, 250000}

\* a document of the agent's output, as the prompt asks for it
Documents ==
    { [document_type |-> t, amount |-> a, hoa_lien |-> h] :
        t \in Types, a \in DocAmounts, h \in BOOLEAN }

\* what the BCPAO request can end in: an exception of requests, or a response
\* with a status and a JSON body (a key the body lacks is <<>>)
BcpaoBody(owner, assessed, just) ==
    [raised |-> FALSE, status_code |-> 200, ownerName |-> owner,
     propertyAddress |-> "4127 ARLINGTON AVE", assessedValue |-> assessed, justValue |-> just]

BcpaoResponses ==
    { [raised |-> TRUE],
      [raised |-> FALSE, status_code |-> 500],
      BcpaoBody("", <<300000>>, <<280000>>),
      BcpaoBody("JOHN DOE", <<300000>>, <<280000>>),
      BcpaoBody("JOHN DOE", <<>>, <<50000>>),
      BcpaoBody("JOHN DOE", <<100000>>, <<100000>>),
      BcpaoBody("JOHN DOE", <<>>, <<200000>>),
      BcpaoBody("JOHN DOE", <<>>, <<>>) }

\* the output the prompt prescribes to the agent "if page fails to load"
\* (it has no documents key)
AgentFailure ==
    [success |-> FALSE, error |-> "page failed to load", stage |-> "navigation",
     documents |-> <<>>]

\* what the agent request can end in: an exception of requests, or a response
\* with a status and, under data.output, the agent's output
AgentResponses ==
    { [raised |-> TRUE], [raised |-> FALSE, status_code |-> 500] }
    \cup { [raised |-> FALSE, status_code |-> 200, output |-> [documents |-> <<docs>>]] :
             docs \in SeqsUpTo(Documents, MaxDocs) }
    \cup { [raised |-> FALSE, status_code |-> 200, output |-> [documents |-> <<>>]] }
    \cup { [raised |-> FALSE, status_code |-> 200, output |-> AgentFailure] }

\* dict.get(key, default) on a key kept as <<>> or <<value>>
GetOr(field, default) == IF field = <<>> THEN default ELSE field[1]

(***************************************************************************)
(* IntegratedLienDiscovery._get_owner_from_bcpao and _search_acclaimweb.   *)
(***************************************************************************)
get_owner_from_bcpao(response) ==
    IF response.raised
    THEN [success |-> FALSE, error |-> "BCPAO API request failed"]
    ELSE IF response.status_code # 200
    THEN [success |-> FALSE, error |-> "BCPAO API returned status"]
    ELSE IF response.ownerName = ""
    THEN [success |-> FALSE, error |-> "Owner name not found in BCPAO data"]
    ELSE [success |-> TRUE,
          parcel_id |-> "2517790",
          owner_name |-> response.ownerName,
          address |-> response.propertyAddress,
          assessed_value |-> GetOr(response.assessedValue, 0),
          just_value |-> GetOr(response.justValue, 0)]

search_acclaimweb(response) ==
    IF response.raised
    THEN [success |-> FALSE, error |-> "Firecrawl Agent request failed"]
    ELSE IF response.status_code # 200
    THEN [success |-> FALSE, error |-> "Firecrawl Agent returned status"]
    ELSE [success |-> TRUE, agent_result |-> response.output]

(***************************************************************************)
(* IntegratedLienDiscovery._combine_results.                               *)
(***************************************************************************)
IsMortgageDoc(doc) == doc.document_type = "MTG"
IsLienDoc(doc) == doc.document_type = "LIEN"
IsJudgmentDoc(doc) == doc.document_type = "JUDG"
\* lien.get('hoa_lien', False)
IsHoaDoc(doc) == "hoa_lien" \in DOMAIN doc /\ doc.hoa_lien

\* sum(lien.get('amount', 0) for lien in liens)
DocsEncumbrance(docs) ==
    SumSeq([i \in 1..Len(docs) |->
               IF "amount" \in DOMAIN docs[i] THEN docs[i].amount ELSE 0])

\* the assessed value taken alone
Arv_AssessedOnly(bcpao) == bcpao.assessed_value

\* arv = max(assessed_value, just_value)
Arv(bcpao) == Max(bcpao.assessed_value, bcpao.just_value)

\* max_bid_equity = (arv * 0.70) - total_encumbrance - 10000
MaxBidEquity(arv, total_encumbrance) ==
    (arv * ARV_PERCENT) \div 100 - total_encumbrance - CLOSING_COST

\* first_position = mortgages[0] if mortgages else None
DocsFirstPosition(mortgages) == IF mortgages # <<>> THEN <<mortgages[1]>> ELSE <<>>

\* a warnings list that calls a title of two mortgages complex already
CombineWarnings_ComplexAtTwo(hoa_liens, mortgages, max_bid_equity) ==
    (IF hoa_liens # <<>>
     THEN << [type |-> "HOA_FORECLOSURE_RISK", severity |-> "CRITICAL",
              message |-> <<Len(hoa_liens), " HOA lien(s) detected">>,
              hoa_liens |-> hoa_liens] >>
     ELSE <<>>)
    \o
    (IF Len(mortgages) >= MAX_SIMPLE_MORTGAGES
     THEN << [type |-> "COMPLEX_TITLE", severity |-> "MEDIUM",
              message |-> <<Len(mortgages), " mortgages detected">>] >>
     ELSE <<>>)
    \o
    (IF max_bid_equity < EQUITY_FLOOR
     THEN << [type |-> "INSUFFICIENT_EQUITY", severity |-> "HIGH",
              message |-> <<"Insufficient equity after liens: ", max_bid_equity>>] >>
     ELSE <<>>)

\* the warnings list: three independent ifs, in this order
CombineWarnings(hoa_liens, mortgages, max_bid_equity) ==
    (IF hoa_liens # <<>>
     THEN << [type |-> "HOA_FORECLOSURE_RISK", severity |-> "CRITICAL",
              message |-> <<Len(hoa_liens), " HOA lien(s) detected">>,
              hoa_liens |-> hoa_liens] >>
     ELSE <<>>)
    \o
    (IF Len(mortgages) > MAX_SIMPLE_MORTGAGES
     THEN << [type |-> "COMPLEX_TITLE", severity |-> "MEDIUM",
              message |-> <<Len(mortgages), " mortgages detected">>] >>
     ELSE <<>>)
    \o
    (IF max_bid_equity < EQUITY_FLOOR
     THEN << [type |-> "INSUFFICIENT_EQUITY", severity |-> "HIGH",
              message |-> <<"Insufficient equity after liens: ", max_bid_equity>>] >>
     ELSE <<>>)

\* the equity test made with <= instead of <
Recommend_FloorInclusive(hoa_liens, mortgages, max_bid_equity) ==
    IF hoa_liens # <<>>
    THEN <<"SKIP", "HOA foreclosure risk - may wipe senior mortgages">>
    ELSE IF max_bid_equity <= EQUITY_FLOOR
    THEN <<"SKIP", "Insufficient equity after liens">>
    ELSE IF Len(mortgages) > MAX_SIMPLE_MORTGAGES
    THEN <<"REVIEW", "Complex title - verify lien priority with attorney">>
    ELSE <<"BID", "Acceptable lien structure and equity position">>

\* a decision that remembers the run before it: once a result has been
\* produced, a complex title is escalated to SKIP
Recommend_Remembering(hoa_liens, mortgages, max_bid_equity) ==
    IF hoa_liens # <<>>
    THEN <<"SKIP", "HOA foreclosure risk - may wipe senior mortgages">>
    ELSE IF max_bid_equity < EQUITY_FLOOR
    THEN <<"SKIP", "Insufficient equity after liens">>
    ELSE IF Len(mortgages) > MAX_SIMPLE_MORTGAGES
    THEN IF result = <<>>
         THEN <<"REVIEW", "Complex title - verify lien priority with attorney">>
         ELSE <<"SKIP", "Complex title - verify lien priority with attorney">>
    ELSE <<"BID", "Acceptable lien structure and equity position">>

\* the if / elif / elif / else chain: <<recommendation, reason>>
Recommend(hoa_liens, mortgages, max_bid_equity) ==
    IF hoa_liens # <<>>
    THEN <<"SKIP", "HOA foreclosure risk - may wipe senior mortgages">>
    ELSE IF max_bid_equity < EQUITY_FLOOR
    THEN <<"SKIP", "Insufficient equity after liens">>
    ELSE IF Len(mortgages) > MAX_SIMPLE_MORTGAGES
    THEN <<"REVIEW", "Complex title - verify lien priority with attorney">>
    ELSE <<"BID", "Acceptable lien structure and equity position">>

combine_results(bcpao, acclaimweb) ==
    IF ~acclaimweb.success
    THEN [success |-> FALSE, error |-> "AcclaimWeb search failed",
          bcpao_data |-> bcpao, acclaimweb_error |-> acclaimweb.error]
    ELSE
    LET docs == GetOr(acclaimweb.agent_result.documents, <<>>)
        hoa_liens == SelectSeq(docs, IsHoaDoc)
        total_encumbrance == DocsEncumbrance(docs)
        mortgages == SelectSeq(docs, IsMortgageDoc)
        other_liens == SelectSeq(docs, IsLienDoc)
        judgments == SelectSeq(docs, IsJudgmentDoc)
        arv == Arv(bcpao)
        max_bid_equity == MaxBidEquity(arv, total_encumbrance)
        rec == Recommend(hoa_liens, mortgages, max_bid_equity)
    IN  [success |-> TRUE,
         timestamp |-> now,
         property |-> [parcel_id |-> bcpao.parcel_id, address |-> bcpao.address,
                       owner_name |-> bcpao.owner_name,
                       assessed_value |-> bcpao.assessed_value,
                       just_value |-> bcpao.just_value],
         lien_analysis |-> [total_liens |-> Len(docs),
                            total_encumbrance |-> total_encumbrance,
                            mortgages |-> Len(mortgages),
                            other_liens |-> Len(other_liens),
                            judgments |-> Len(judgments),
                            hoa_liens |-> Len(hoa_liens),
                            first_position |-> DocsFirstPosition(mortgages)],
         liens |-> docs,
         investment_analysis |-> [arv |-> arv,
                                  max_bid_equity_70pct |-> max_bid_equity,
                                  recommendation |-> rec[1],
                                  reason |-> rec[2],
                                  warnings |-> CombineWarnings(hoa_liens, mortgages,
                                                               max_bid_equity)]]

(***************************************************************************)
(* IntegratedLienDiscovery.discover_liens: the run.                        *)
(***************************************************************************)
AcclaimIdle ==
    /\ markdown = <<>>
    /\ liens = <<>>
    /\ given = <<>>
    /\ analysis = <<>>

InitWorkflow ==
    /\ pc = "discover"
    /\ WorkflowIdle
    /\ AcclaimIdle
    /\ AmountIdle
    /\ SearchIdle
    /\ AgentIdle

\* Step 1: bcpao_data = self._get_owner_from_bcpao(parcel_id); a failure is
\* returned at once
GetOwnerFromBcpao ==
    /\ pc = "discover"
    /\ \E response \in BcpaoResponses :
        LET data == get_owner_from_bcpao(response)
        IN  /\ bcpao_data' = <<data>>
            /\ IF data.success
               THEN /\ pc' = "search"
                    /\ UNCHANGED result
               ELSE /\ pc' = "returned"
                    /\ result' = << [success |-> FALSE,
                                     error |-> "Failed to get property owner from BCPAO",
                                     details |-> data.error] >>
    /\ UNCHANGED <<amountVars, searchVars, agentVars, acclaimVars, acclaimweb_result, repeated, now>>

\* Step 2: acclaimweb_result = self._search_acclaimweb(...)
SearchAcclaimweb ==
    /\ pc = "search"
    /\ \E response \in AgentResponses :
        acclaimweb_result' = <<search_acclaimweb(response)>>
    /\ pc' = "combine"
    /\ UNCHANGED <<amountVars, searchVars, agentVars, acclaimVars, bcpao_data, result, repeated, now>>

\* Step 3: return self._combine_results(bcpao_data, acclaimweb_result)
CombineResults ==
    /\ pc = "combine"
    /\ result' = <<combine_results(bcpao_data[1], acclaimweb_result[1])>>
    /\ now' = now + 1
    /\ pc' = "returned"
    /\ UNCHANGED <<amountVars, searchVars, agentVars, acclaimVars, bcpao_data, acclaimweb_result, repeated>>

\* the caller runs _combine_results a second time on the dicts it holds
CombineAgain ==
    /\ pc = "returned"
    /\ acclaimweb_result # <<>>
    /\ repeated' = <<combine_results(bcpao_data[1], acclaimweb_result[1])>>
    /\ now' = now + 1
    /\ pc' = "repeated"
    /\ UNCHANGED <<amountVars, searchVars, agentVars, acclaimVars, bcpao_data, acclaimweb_result, result>>

NextWorkflow == GetOwnerFromBcpao \/ SearchAcclaimweb \/ CombineResults \/ CombineAgain

SpecWorkflow == InitWorkflow /\ [][NextWorkflow]_vars

(***************************************************************************)
(* Properties of the AcclaimWeb path (checked under Spec).                 *)
(***************************************************************************)
Analyzed == pc = "analyzed"

\* the record at position j is ranked behind the record at position i when
\* the records are ordered by ascending recorded date, ties in input order
DateOrderBefore(s, i, j) ==
    \/ DateBefore(s[i].recorded_date, s[j].recorded_date)
    \/ /\ ~DateBefore(s[j].recorded_date, s[i].recorded_date)
       /\ i < j

RanksArePermutation ==
    {liens[i].priority_position : i \in 1..Len(liens)} = 1..Len(given)

RanksFollowDates ==
    \A i \in 1..Len(liens), j \in 1..Len(liens) :
        (liens[i].priority_position < liens[j].priority_position)
            <=> (i # j /\ DateOrderBefore(given, i, j))

\* C1 as stated: for every list given to analyze_lien_priority the ranks are a
\* contiguous permutation of 1..N that follows ascending recorded date, records
\* of equal date ranked in input order.
C1_RanksByDateForEveryList ==
    Analyzed => /\ Len(liens) = Len(given)
                /\ RanksArePermutation
                /\ RanksFollowDates

\* C1 amended: the rank of a record is its position in the list given to the
\* analysis, so the ranks are 1..N without gap or duplicate and nothing else of
\* a record changes; the list _parse_liens returns is in ascending date order,
\* and for every list that is, the ranks follow ascending recorded date with
\* records of equal date in input order.
C1_RanksFollowInputPosition ==
    /\ pc = "parsed" => SortedByDate(liens)
    /\ Analyzed =>
        /\ Len(liens) = Len(given)
        /\ \A i \in 1..Len(liens) :
              /\ liens[i].priority_position = i
              /\ [k \in DOMAIN given[i] |-> liens[i][k]] = given[i]
        /\ RanksArePermutation
        /\ SortedByDate(given) => RanksFollowDates

\* an analyzed list of three records in date order, two of them of one date
C1_Witness ==
    /\ Analyzed
    /\ Len(given) = 3
    /\ SortedByDate(given)
    /\ given[1].recorded_date # given[2].recorded_date
    /\ given[2].recorded_date = given[3].recorded_date
    /\ given[2] # given[3]

IsMortgageAt(s, i) == s[i].type = "MTG"

\* C2 as stated: first_position is None exactly when no record is a
\* mortgage, and otherwise it is the mortgage of the smallest rank, also when
\* a record of another type is recorded before every mortgage.
C2_FirstPositionIsEarliestMortgage ==
    Analyzed =>
        LET a == analysis[1]
            ranks == {i \in 1..Len(liens) : IsMortgageAt(liens, i)}
        IN  /\ (a.first_position = <<>>) <=> (ranks = {})
            /\ ranks # {} =>
                  a.first_position =
                      <<liens[CHOOSE i \in ranks : \A j \in ranks : i <= j]>>

RECURSIVE SumOverValues(_, _)
\* the sum of v times the number of records of amount v, over the values vs
SumOverValues(s, vs) ==
    IF vs = {} THEN 0
    ELSE LET v == CHOOSE x \in vs : TRUE
         IN  v * Cardinality({i \in 1..Len(s) : s[i].amount = v})
               + SumOverValues(s, vs \ {v})

Permuted(s, p) == [i \in 1..Len(s) |-> s[p[i]]]

IsHoaWarning(w) == w.type = "HOA_FORECLOSURE_RISK"
IsTitleWarning(w) == w.type = "MULTIPLE_MORTGAGES"

\* the positions of the warnings that carry the record lien
HoaWarningsFor(a, lien) ==
    {k \in 1..Len(a.warnings) : IsHoaWarning(a.warnings[k]) /\ a.warnings[k].lien = lien}

FlaggedAt(s) == {i \in 1..Len(s) : s[i].is_hoa}
FlaggedLiensAt(s) == {i \in 1..Len(s) : s[i].is_hoa /\ s[i].type = "LIEN"}
MortgagesAt(s) == {i \in 1..Len(s) : s[i].type = "MTG"}

\* C7 as stated: one HOA_FORECLOSURE_RISK warning for each record whose flag
\* is true, whatever its type, carrying that record, so that the number of
\* these warnings is the number of flagged records.
C7_WarningPerFlaggedRecord ==
    Analyzed =>
        LET a == analysis[1]
        IN  /\ \A i \in FlaggedAt(liens) : Cardinality(HoaWarningsFor(a, liens[i])) = 1
            /\ Len(SelectSeq(a.warnings, IsHoaWarning)) = Cardinality(FlaggedAt(liens))

\* C7 amended: one HOA_FORECLOSURE_RISK warning for each record of type LIEN
\* whose flag is true, carrying that record, and none for any other record
\* (a flagged MTG or JUDG record included); the number of these warnings is
\* the size of the hoa_liens bucket.
C7_WarningPerFlaggedLien ==
    Analyzed =>
        LET a == analysis[1]
        IN  /\ \A i \in 1..Len(liens) :
                  Cardinality(HoaWarningsFor(a, liens[i]))
                      = IF i \in FlaggedLiensAt(liens) THEN 1 ELSE 0
            /\ Len(SelectSeq(a.warnings, IsHoaWarning)) = Cardinality(FlaggedLiensAt(given))
            /\ Len(a.hoa_liens) = Cardinality(FlaggedLiensAt(given))

\* an analyzed list with a flagged lien, a flagged mortgage and a lien that
\* is not flagged
C7_Witness ==
    /\ Analyzed
    /\ \E i, j, k \in 1..Len(given) :
          /\ given[i].type = "LIEN" /\ given[i].is_hoa
          /\ given[j].type = "MTG" /\ given[j].is_hoa
          /\ given[k].type = "LIEN" /\ ~given[k].is_hoa
    /\ Len(analysis[1].warnings) = 1

\* C8: one MULTIPLE_MORTGAGES warning, carrying the number of mortgages,
\* exactly when more than two of the analyzed records are mortgages; none with
\* 0, 1 or 2 mortgages.
C8_TitleWarningIffMoreThanTwoMortgages ==
    Analyzed =>
        LET a == analysis[1]
            n == Cardinality(MortgagesAt(given))
            title == SelectSeq(a.warnings, IsTitleWarning)
        IN  /\ Len(title) = IF n > 2 THEN 1 ELSE 0
            /\ \A k \in 1..Len(title) : title[k].count = n
            /\ Len(a.mortgages) = n

\* an analyzed list of exactly three mortgages
C8_Witness ==
    /\ Analyzed
    /\ Cardinality(MortgagesAt(given)) = 3
    /\ Len(SelectSeq(analysis[1].warnings, IsTitleWarning)) = 1

HoaWarningsPrecedeTitleWarning ==
    \A k \in 1..Len(analysis[1].warnings), m \in 1..Len(analysis[1].warnings) :
        (IsHoaWarning(analysis[1].warnings[k]) /\ IsTitleWarning(analysis[1].warnings[m]))
            => k < m

\* C9 as stated: every HOA_FORECLOSURE_RISK warning precedes the
\* MULTIPLE_MORTGAGES warning, and when any record has the priority-risk flag
\* the first warning is a HOA_FORECLOSURE_RISK warning.
C9_FirstWarningIsRiskWhenAnyFlagged ==
    Analyzed =>
        /\ HoaWarningsPrecedeTitleWarning
        /\ FlaggedAt(given) # {} =>
              /\ analysis[1].warnings # <<>>
              /\ IsHoaWarning(analysis[1].warnings[1])

\* C9 amended: the two kinds of warning are raised independently (the list
\* holds one warning per flagged LIEN record, plus the title warning exactly
\* when there are more than two mortgages), every HOA_FORECLOSURE_RISK
\* warning precedes the MULTIPLE_MORTGAGES warning, and when any record of
\* type LIEN has the flag the first warning is a HOA_FORECLOSURE_RISK warning.
C9_WarningsIndependentAndOrdered ==
    Analyzed =>
        LET w == analysis[1].warnings
            nHoa == Cardinality(FlaggedLiensAt(given))
            nTitle == IF Cardinality(MortgagesAt(given)) > 2 THEN 1 ELSE 0
        IN  /\ Len(w) = nHoa + nTitle
            /\ \A k \in 1..Len(w) : IsHoaWarning(w[k]) <=> k <= nHoa
            /\ \A k \in 1..Len(w) : IsTitleWarning(w[k]) <=> k > nHoa
            /\ HoaWarningsPrecedeTitleWarning
            /\ nHoa > 0 => IsHoaWarning(w[1])

\* an analyzed list that raises both kinds of warning
C9_Witness ==
    /\ Analyzed
    /\ Len(analysis[1].warnings) = 2
    /\ IsHoaWarning(analysis[1].warnings[1])
    /\ IsTitleWarning(analysis[1].warnings[2])

(***************************************************************************)
(* Properties of the workflow (checked under SpecWorkflow).                *)
(***************************************************************************)
Succeeded == result # <<>> /\ result[1].success

\* C4: the recommendation is the first matching row of the table: HOA count
\* > 0 gives SKIP; else equity < 10000 gives SKIP (equity = 10000 does not
\* match); else more than 2 mortgages gives REVIEW; else BID; each with the
\* reason of its row.
C4_DecisionTableFirstMatchWins ==
    Succeeded =>
        LET hoa == result[1].lien_analysis.hoa_liens
            mtg == result[1].lien_analysis.mortgages
            equity == result[1].investment_analysis.max_bid_equity_70pct
            rec == result[1].investment_analysis.recommendation
            reason == result[1].investment_analysis.reason
        IN  /\ hoa > 0 =>
                /\ rec = "SKIP"
                /\ reason = "HOA foreclosure risk - may wipe senior mortgages"
            /\ (hoa = 0 /\ equity < 10000) =>
                /\ rec = "SKIP"
                /\ reason = "Insufficient equity after liens"
            /\ (hoa = 0 /\ equity >= 10000 /\ mtg > 2) =>
                /\ rec = "REVIEW"
                /\ reason = "Complex title - verify lien priority with attorney"
            /\ (hoa = 0 /\ equity >= 10000 /\ mtg <= 2) =>
                /\ rec = "BID"
                /\ reason = "Acceptable lien structure and equity position"

\* a result whose equity is exactly the floor, and which is not skipped
C4_Witness ==
    /\ Succeeded
    /\ result[1].lien_analysis.hoa_liens = 0
    /\ result[1].investment_analysis.max_bid_equity_70pct = 10000
    /\ result[1].investment_analysis.recommendation = "BID"

\* C5: arv is the larger of assessed_value and just_value and the equity is
\* 70% of arv minus total_encumbrance minus 10000; no records and a 50,000
\* valuation give 25,000 and BID; one 250,000 mortgage against 300,000 /
\* 280,000 gives -50,000 and SKIP for insufficient equity.
C5_EquityFormulaAndScenarios ==
    Succeeded =>
        LET r == result[1]
            arv == r.investment_analysis.arv
            equity == r.investment_analysis.max_bid_equity_70pct
            total == r.lien_analysis.total_encumbrance
        IN  /\ arv >= r.property.assessed_value
            /\ arv >= r.property.just_value
            /\ arv \in {r.property.assessed_value, r.property.just_value}
            /\ 10 * equity = 7 * arv - 10 * total - 100000
            /\ (r.liens = <<>> /\ arv = 50000) =>
                  /\ equity = 25000
                  /\ r.investment_analysis.recommendation = "BID"
            /\ (/\ r.liens = <<[document_type |-> "MTG", amount |-> 250000, hoa_lien |-> FALSE]>>
                /\ r.property.assessed_value = 300000
                /\ r.property.just_value = 280000) =>
                  /\ equity = -50000
                  /\ r.investment_analysis.recommendation = "SKIP"
                  /\ r.investment_analysis.reason = "Insufficient equity after liens"

\* the result for one 250,000 mortgage against 300,000 / 280,000
C5_Witness ==
    /\ Succeeded
    /\ result[1].liens = <<[document_type |-> "MTG", amount |-> 250000, hoa_lien |-> FALSE]>>
    /\ result[1].property.assessed_value = 300000
    /\ result[1].property.just_value = 280000
    /\ result[1].investment_analysis.max_bid_equity_70pct = -50000

InitPipeline == Init \/ InitWorkflow

NextPipeline == Next \/ NextWorkflow

SpecPipeline == InitPipeline /\ [][NextPipeline]_vars

NoDocuments ==
    /\ acclaimweb_result # <<>>
    /\ acclaimweb_result[1].success
    /\ GetOr(acclaimweb_result[1].agent_result.documents, <<>>) = <<>>

\* C10: the empty list is a valid input of the analysis: the result has
\* total_liens 0, total_encumbrance 0, empty buckets, no warnings and
\* first_position None, and no error; and the workflow still computes a
\* recommendation when there are no documents.
C10_EmptyInputIsValid ==
    /\ (Analyzed /\ given = <<>>) =>
          /\ DOMAIN analysis[1] =
                {"total_liens", "total_encumbrance", "first_position", "hoa_liens",
                 "mortgages", "judgments", "warnings", "encumbrance_summary"}
          /\ analysis[1].total_liens = 0
          /\ analysis[1].total_encumbrance = 0
          /\ analysis[1].first_position = <<>>
          /\ analysis[1].hoa_liens = <<>>
          /\ analysis[1].mortgages = <<>>
          /\ analysis[1].judgments = <<>>
          /\ analysis[1].warnings = <<>>
          /\ analysis[1].encumbrance_summary = <<>>
          /\ liens = <<>>
    /\ (pc = "returned" /\ NoDocuments) =>
          /\ result[1].success
          /\ result[1].lien_analysis.total_liens = 0
          /\ result[1].lien_analysis.total_encumbrance = 0
          /\ result[1].lien_analysis.first_position = <<>>
          /\ result[1].investment_analysis.recommendation
                = IF 7 * result[1].investment_analysis.arv < 200000 THEN "SKIP" ELSE "BID"

\* the analysis of the list parsed from text none of whose lines matches
C10_Witness ==
    /\ Analyzed
    /\ markdown # <<>>
    /\ given = <<>>
    /\ analysis[1].total_liens = 0

(***************************************************************************)
(* Buckets of the analysis.                                                *)
(***************************************************************************)
\* the bucket of the analysis that holds the records of type t
BucketOf(a, t) ==
    IF t = "MTG" THEN a.mortgages
    ELSE IF t = "LIEN" THEN a.hoa_liens
    ELSE a.judgments

\* the number of places of the three buckets that hold the ranked record r
Occurrences(a, r) ==
    Cardinality({<<t, k>> \in {"MTG", "LIEN", "JUDG"} \X (1..Len(liens)) :
                    k <= Len(BucketOf(a, t)) /\ BucketOf(a, t)[k] = r})

RanksIncrease(bucket) ==
    \A i \in 1..Len(bucket), j \in 1..Len(bucket) :
        i < j => bucket[i].priority_position < bucket[j].priority_position

\* C11 as stated: after the analysis every record of the list is in exactly
\* one of the three buckets, the bucket of its type (a LIEN that is not an
\* HOA lien included); the bucket sizes add up to total_liens; inside a bucket
\* the ranks increase.
C11_EveryRecordInTheBucketOfItsType ==
    Analyzed =>
        LET a == analysis[1]
        IN  /\ \A i \in 1..Len(liens) :
                /\ Occurrences(a, liens[i]) = 1
                /\ \E k \in 1..Len(BucketOf(a, liens[i].type)) :
                       BucketOf(a, liens[i].type)[k] = liens[i]
            /\ Len(a.mortgages) + Len(a.hoa_liens) + Len(a.judgments) = a.total_liens
            /\ \A t \in {"MTG", "LIEN", "JUDG"} : RanksIncrease(BucketOf(a, t))

(***************************************************************************)
(* AcclaimWebClient: extraction from the text of the results page.         *)
(***************************************************************************)
MaxRawLines == 3

WELLS_FARGO_BANK_NA == <<"W","e","l","l","s"," ","F","a","r","g","o"," ","B","a","n","k"," ","N","A">>
SUNSET_LOWER == <<"s","u","n","s","e","t"," ","H","o","m","e","o","w","n","e","r","s"," ","a","s","s","o","c","i","a","t","i","o","n">>
PARKVIEW_HOA == <<"P","A","R","K","V","I","E","W"," ","H","O","A">>
SHOAL_CREEK_BANK == <<"S","h","o","a","l"," ","C","r","e","e","k"," ","B","a","n","k">>
BEACHSIDE_CONDO == <<"B","E","A","C","H","S","I","D","E"," ","C","O","N","D","O","M","I","N","I","U","M"," ","A","S","S","O","C","I","A","T","I","O","N">>
JANUARY_15 == <<"0","1","/","1","5","/","2","0","2","3">>
DECEMBER_1 == <<"1","2","/","0","1","/","2","0","2","2">>

\* the fields of a line "TYPE | instrument | Book n Page m | grantor |
\* grantee | date | amount"
RawLine(type, grantor, date, amt) ==
    << type \o <<" ">>,
       <<" ","2","0","2","3","-","1","2","3","4","5"," ">>,
       <<" ","B","o","o","k"," ","1","2","3","4"," ","P","a","g","e"," ","5","6","7"," ">>,
       <<" ">> \o grantor \o <<" ">>,
       <<" ">> \o JOHN_DOE \o <<" ">>,
       <<" ">> \o date \o <<" ">>,
       <<" ">> \o amt >>

MTG_LINE == RawLine(MTG_TEXT, WELLS_FARGO_BANK_NA, JANUARY_15, <<"$","2","5","0",",","0","0","0">>)
SUNSET_LINE == RawLine(LIEN_TEXT, SUNSET_LOWER, DECEMBER_1, <<"$","5",",","0","0","0">>)
PARKVIEW_LINE == RawLine(LIEN_TEXT, PARKVIEW_HOA, JANUARY_15, <<"5","0","0","0">>)
BEACHSIDE_LINE == RawLine(JUDG_TEXT, BEACHSIDE_CONDO, DECEMBER_1, <<"$","5",",","0","0","0">>)
\* a row of a markdown table: "| JUDG | ... | 5000 |"
TABLE_ROW ==
    <<<<>>>> \o RawLine(<<" ">> \o JUDG_TEXT, SHOAL_CREEK_BANK,
                        JANUARY_15, <<"5","0","0","0"," ">>) \o <<<<>>>>
\* the mortgage line without its grantee field
MISSING_FIELD == SubSeq(MTG_LINE, 1, 4) \o SubSeq(MTG_LINE, 6, 7)
\* the mortgage line with a two-digit year in the instrument number
BAD_INSTRUMENT == [MTG_LINE EXCEPT ![2] = <<" ","2","3","-","1","2","3","4","5"," ">>]
HEADING == <<<<"R","e","c","o","r","d","e","d"," ","d","o","c","u","m","e","n","t","s">>>>

RawLines ==
    {MTG_LINE, SUNSET_LINE, PARKVIEW_LINE, BEACHSIDE_LINE, TABLE_ROW,
     MISSING_FIELD, BAD_INSTRUMENT, HEADING}

InitExtract ==
    /\ pc = "scraped"
    /\ markdown \in SeqsUpTo(RawLines, MaxRawLines)
    /\ liens = <<>>
    /\ given = <<>>
    /\ analysis = <<>>
    /\ WorkflowIdle
    /\ AmountIdle
    /\ SearchIdle
    /\ AgentIdle

\* liens = self._parse_liens(markdown), the pattern run on every line
SearchAndParseLiens ==
    /\ pc = "scraped"
    /\ liens' = parse_liens([i \in 1..Len(markdown) |-> Search(markdown[i])])
    /\ pc' = "parsed"
    /\ UNCHANGED <<amountVars, searchVars, agentVars, markdown, given, analysis, workflowVars>>

NextExtract == SearchAndParseLiens \/ AnalyzeLienPriority

SpecExtract == InitExtract /\ [][NextExtract]_vars

(***************************************************************************)
(* Extraction: one record per line that fits.                              *)
(***************************************************************************)
Extracting == pc = "parsed" /\ markdown \in Seq(RawLines)

\* the well-formed lines of RawLines, each with the type, the creditor and
\* the amount written on it
WellFormed ==
    { <<MTG_LINE, "MTG", WELLS_FARGO_BANK_NA, 250000>>,
      <<SUNSET_LINE, "LIEN", SUNSET_LOWER, 5000>>,
      <<PARKVIEW_LINE, "LIEN", PARKVIEW_HOA, 5000>>,
      <<BEACHSIDE_LINE, "JUDG", BEACHSIDE_CONDO, 5000>>,
      <<TABLE_ROW, "JUDG", SHOAL_CREEK_BANK, 5000>> }

\* the lines of RawLines that lack a field, carry a malformed field, or are
\* no record line at all
Malformed == {MISSING_FIELD, BAD_INSTRUMENT, HEADING}

LinesEqualTo(line) == {i \in 1..Len(markdown) : markdown[i] = line}

RecordsOf(w) ==
    {j \in 1..Len(liens) :
        liens[j].type = w[2] /\ liens[j].grantor = w[3] /\ liens[j].amount = w[4]}

MaxAmountLen == 4

AmountChars == {"1", "0", ",", "$", ".", "-", " ", "x"}

\* the texts of test_parse_amount
AmountExamples ==
    { <<"$","2","5","0",",","0","0","0">>,
      <<"2","5","0","0","0","0">>,
      <<"$","1",",","2","3","4",".","5","6">>,
      <<"i","n","v","a","l","i","d">> }

InitAmount ==
    /\ pc = "amount"
    /\ amount_str \in SeqsUpTo(AmountChars, MaxAmountLen) \cup AmountExamples
    /\ amount = <<>>
    /\ AcclaimIdle
    /\ WorkflowIdle
    /\ SearchIdle
    /\ AgentIdle

\* self._parse_amount(amount_str)
ParseAmount ==
    /\ pc = "amount"
    /\ amount' = <<parse_amount_value(amount_str)>>
    /\ pc' = "amounted"
    /\ UNCHANGED <<amount_str, acclaimVars, workflowVars, searchVars, agentVars>>

NextAmount == ParseAmount

SpecAmount == InitAmount /\ [][NextAmount]_vars

(***************************************************************************)
(* Amount parsing.                                                         *)
(***************************************************************************)
AmountParsed == pc = "amounted" /\ amount # <<>>

IsMoneyMark(c) == c = "$" \/ c = ","

HasChar(text, c) == \E i \in 1..Len(text) : text[i] = c

\* a text of digits with currency symbols and thousands separators among
\* them, blanks at its ends only
IsSeparatedDigits(text) ==
    LET inner == Strip(text)
    IN  /\ \E i \in 1..Len(inner) : IsDigit(inner[i])
        /\ \A i \in 1..Len(inner) : IsDigit(inner[i]) \/ IsMoneyMark(inner[i])

SameLetter(a, b) ==
    \/ a = b
    \/ \E i \in 1..Len(LowerCase) :
           {a, b} = {LowerCase[i], UpperCase[i]}

\* the word stands somewhere in the text, letter case disregarded
ContainsFolded(text, word) ==
    \E at \in 0..(Len(text) - Len(word)) :
        \A i \in 1..Len(word) : SameLetter(text[at + i], word[i])

GrantorsOfLiens == {liens[i].grantor : i \in 1..Len(liens)}

\* C14: every extracted record has is_hoa true exactly when its grantor,
\* letter case disregarded, contains one of the five keywords as a substring:
\* "sunset Homeowners association", "PARKVIEW HOA" and "BEACHSIDE
\* CONDOMINIUM ASSOCIATION" are flagged, "Wells Fargo Bank NA" is not.
C14_FlagIffKeywordInGrantor ==
    Extracting =>
        \A i \in 1..Len(liens) :
            /\ liens[i].is_hoa \in BOOLEAN
            /\ liens[i].is_hoa <=>
                   \E k \in HOA_KEYWORDS : ContainsFolded(liens[i].grantor, k)
            /\ liens[i].grantor \in {SUNSET_LOWER, PARKVIEW_HOA, BEACHSIDE_CONDO}
                   => liens[i].is_hoa
            /\ liens[i].grantor = WELLS_FARGO_BANK_NA => ~liens[i].is_hoa

C14_Witness ==
    /\ Extracting
    /\ GrantorsOfLiens = {SUNSET_LOWER, PARKVIEW_HOA, WELLS_FARGO_BANK_NA}
    /\ \E i \in 1..Len(liens) : liens[i].is_hoa
    /\ \E i \in 1..Len(liens) : ~liens[i].is_hoa

(***************************************************************************)
(* IntegratedLienDiscovery.discover_liens on documents that name their     *)
(* grantor, as the agent's prompt asks for them.                           *)
(***************************************************************************)
MaxGrantorDocs == 2

GrantorDocuments ==
    { [grantor |-> g] @@ d : g \in Creditors, d \in {x \in Documents : x.amount = 50000} }

GrantorAgentResponses ==
    { [raised |-> TRUE] }
    \cup { [raised |-> FALSE, status_code |-> 200, output |-> [documents |-> <<docs>>]] :
             docs \in SeqsUpTo(GrantorDocuments, MaxGrantorDocs) }

\* Step 2, the agent's documents naming their grantor
SearchAcclaimwebGrantors ==
    /\ pc = "search"
    /\ \E response \in GrantorAgentResponses :
        acclaimweb_result' = <<search_acclaimweb(response)>>
    /\ pc' = "combine"
    /\ UNCHANGED <<amountVars, searchVars, agentVars, acclaimVars, bcpao_data, result, repeated, now>>

NextGrantors == GetOwnerFromBcpao \/ SearchAcclaimwebGrantors \/ CombineResults

SpecGrantors == InitWorkflow /\ [][NextGrantors]_vars

(***************************************************************************)
(* The flag the recommendation reads.                                      *)
(***************************************************************************)
\* C15 as stated: the flag the recommendation uses (the one that puts a
\* document among the HOA liens) is a function of the grantor text alone: two
\* documents of a result with the same grantor carry the same flag, whatever
\* else came with them.
C15_SameGrantorSameFlag ==
    (pc = "returned" /\ Succeeded) =>
        \A i \in 1..Len(result[1].liens), j \in 1..Len(result[1].liens) :
            result[1].liens[i].grantor = result[1].liens[j].grantor
                => IsHoaDoc(result[1].liens[i]) = IsHoaDoc(result[1].liens[j])

(***************************************************************************)
(* The detection loop run again, and run in another order.                 *)
(***************************************************************************)
\* the dicts of the matching lines before the detection loop ran over them
Unclassified == Extracted([i \in 1..Len(markdown) |-> Search(markdown[i])])

Orders(n) == {p \in [1..n -> 1..n] : \A i, j \in 1..n : p[i] = p[j] => i = j}

\* C16: running the detection loop over an already classified list changes
\* nothing; the flag of a record is the one the loop gives it when the record
\* is alone in the list; and the loop run over the records in any other order
\* gives every record the same flag.
C16_ClassifyIdempotentAndOrderFree ==
    Extracting =>
        LET ex   == Unclassified
            once == Classify(ex)
        IN  /\ Classify(liens) = liens
            /\ Classify(once) = once
            /\ \A i \in 1..Len(ex) : once[i].is_hoa = Classify(<<ex[i]>>)[1].is_hoa
            /\ \A p \in Orders(Len(ex)) :
                   Classify(Permuted(ex, p)) = Permuted(once, p)

C16_Witness ==
    /\ Extracting
    /\ markdown = <<MTG_LINE, SUNSET_LINE, BEACHSIDE_LINE>>
    /\ <<liens[1].is_hoa, liens[2].is_hoa, liens[3].is_hoa>> = <<TRUE, TRUE, FALSE>>

(***************************************************************************)
(* A property without a valuation.                                         *)
(***************************************************************************)
\* the valuation lookup failed, or its answer held neither an assessed nor a
\* just value
ValuationAbsent(response) ==
    \/ ~get_owner_from_bcpao(response).success
    \/ /\ response.assessedValue = <<>>
       /\ response.justValue = <<>>

\* C17 as stated: when the valuation is absent the run ends with a reported
\* error and no recommendation; a missing valuation is never replaced by 0
\* and turned into a SKIP.  The answer the lookup received is recognised by
\* what _get_owner_from_bcpao made of it.
C17_AbsentValuationIsAnError ==
    \A response \in BcpaoResponses :
        (/\ pc = "returned"
         /\ bcpao_data = <<get_owner_from_bcpao(response)>>
         /\ ValuationAbsent(response))
            => /\ ~result[1].success
               /\ "error" \in DOMAIN result[1]
               /\ "investment_analysis" \notin DOMAIN result[1]

(***************************************************************************)
(* The order of the three steps of discover_liens.                         *)
(***************************************************************************)
\* the lien search did not succeed: the request failed, or the agent
\* reported that it could not load or search the page
LienSearchFailed(found) ==
    \/ ~found.success
    \/ /\ "success" \in DOMAIN found.agent_result
       /\ ~found.agent_result.success

HasRecommendation(res) == "investment_analysis" \in DOMAIN res

\* C18 as stated: the lien search is started only after a successful
\* valuation lookup; a result with an analysis and a recommendation exists
\* only when both steps have succeeded; and a failed lien search ends the run
\* with a failure that carries the valuation data and no recommendation.
C18_AnalysisOnlyAfterBothSucceeded ==
    /\ acclaimweb_result # <<>> => (bcpao_data # <<>> /\ bcpao_data[1].success)
    /\ (bcpao_data # <<>> /\ ~bcpao_data[1].success) =>
           /\ acclaimweb_result = <<>>
           /\ pc = "returned" /\ ~HasRecommendation(result[1])
    /\ (result # <<>> /\ HasRecommendation(result[1])) =>
           /\ bcpao_data # <<>> /\ bcpao_data[1].success
           /\ acclaimweb_result # <<>> /\ ~LienSearchFailed(acclaimweb_result[1])
    /\ (result # <<>> /\ acclaimweb_result # <<>>
            /\ LienSearchFailed(acclaimweb_result[1])) =>
           /\ ~result[1].success
           /\ ~HasRecommendation(result[1])
           /\ "bcpao_data" \in DOMAIN result[1]
           /\ result[1].bcpao_data = bcpao_data[1]

(***************************************************************************)
(* The shape of a warning.                                                 *)
(***************************************************************************)
Severities == {"CRITICAL", "MEDIUM", "HIGH"}

\* a warning with a kind, one of the three severities and a message, with
\* the severity its kind calls for
WellShapedWarning(w) ==
    /\ {"type", "severity", "message"} \subseteq DOMAIN w
    /\ w.severity \in Severities
    /\ w.type = "HOA_FORECLOSURE_RISK" => w.severity = "CRITICAL"
    /\ w.type \in {"MULTIPLE_MORTGAGES", "COMPLEX_TITLE"} => w.severity = "MEDIUM"

\* C19 as stated: every warning of every analysis output, that of
\* analyze_lien_priority and that of discover_liens, carries a kind, a
\* severity among Critical, Medium, High, and a message; an HOA risk warning
\* is Critical, a complex title warning Medium.
C19_EveryWarningHasKindSeverityMessage ==
    /\ Analyzed =>
           \A i \in 1..Len(analysis[1].warnings) :
               WellShapedWarning(analysis[1].warnings[i])
    /\ (result # <<>> /\ HasRecommendation(result[1])) =>
           \A i \in 1..Len(result[1].investment_analysis.warnings) :
               WellShapedWarning(result[1].investment_analysis.warnings[i])

(***************************************************************************)
(* What classification and analysis write into a record.                   *)
(***************************************************************************)
\* the record after has every field of the record before with its value,
\* and besides them exactly the fields added
Annotated(before, after, added) ==
    /\ DOMAIN after = DOMAIN before \cup added
    /\ DOMAIN before \cap added = {}
    /\ \A f \in DOMAIN before : after[f] = before[f]

\* ls holds the records of ex, each once, every one with is_hoa added (and
\* warning too, on a flagged record, unless OnlyFlag) and nothing else changed
ClassifiedFrom(ex, ls, OnlyFlag) ==
    /\ Len(ls) = Len(ex)
    /\ \E p \in Orders(Len(ex)) :
           \A i \in 1..Len(ex) :
               /\ "is_hoa" \in DOMAIN ls[i]
               /\ Annotated(ex[p[i]], ls[i],
                            IF ls[i].is_hoa /\ ~OnlyFlag
                            THEN {"is_hoa", "warning"} ELSE {"is_hoa"})

\* the analysis wrote priority_position into every record of the list it
\* was given and left the list in its order
RankedInPlace ==
    /\ Len(liens) = Len(given)
    /\ \A i \in 1..Len(given) : Annotated(given[i], liens[i], {"priority_position"})

\* C20 as stated: after extraction the classifier writes the flag alone
\* into a record and the analysis the rank alone, each once; no other field
\* and not the order of the caller's list is changed.
C20_OnlyFlagAndRankWritten ==
    /\ Extracting => ClassifiedFrom(Unclassified, liens, TRUE)
    /\ (Analyzed /\ markdown \in Seq(RawLines)) =>
           /\ ClassifiedFrom(Unclassified, given, TRUE)
           /\ RankedInPlace

\* C20, amended: the classifier writes the flag into every record and, into
\* a record it flags, the warning text as well; the analysis writes the rank
\* alone; the extraction fields keep their values, and the analysis leaves
\* the caller's list in its order.
C20_FlagWarningAndRankWritten ==
    /\ Extracting => ClassifiedFrom(Unclassified, liens, FALSE)
    /\ (Analyzed /\ markdown \in Seq(RawLines)) =>
           /\ ClassifiedFrom(Unclassified, given, FALSE)
           /\ RankedInPlace

C20_Witness ==
    /\ Analyzed
    /\ markdown = <<MTG_LINE, PARKVIEW_LINE, SUNSET_LINE>>
    /\ liens[1].grantor = SUNSET_LOWER
    /\ liens[1].priority_position = 1
    /\ "warning" \in DOMAIN liens[1]
    /\ "warning" \notin DOMAIN liens[2]

(***************************************************************************)
(* Dates that strptime refuses.                                            *)
(***************************************************************************)
IsLeapYear(y) == (y % 4 = 0 /\ y % 100 # 0) \/ y % 400 = 0

DaysInMonth(m, y) ==
    IF m \in {4, 6, 9, 11} THEN 30
    ELSE IF m = 2 THEN (IF IsLeapYear(y) THEN 29 ELSE 28)
    ELSE 31

\* datetime.strptime(text, '%m/%d/%Y') returns for the day d of the
\* calendar and raises ValueError for any other MM/DD/YYYY
IsCalendarDate(d) ==
    /\ d[1] \in 1..12
    /\ d[3] >= 1
    /\ d[2] \in 1..DaysInMonth(d[1], d[3])

\* liens.sort(key=...) calls the key on every record: one date that strptime
\* refuses and _parse_liens ends in ValueError
parse_liens_raises(lines) ==
    \E i \in 1..Len(lines) : lines[i].matched /\ ~IsCalendarDate(lines[i].g7)

(***************************************************************************)
(* FirecrawlClient.scrape and AcclaimWebClient.search_liens.               *)
(***************************************************************************)
MaxSearchLines == 2

\* a record line dated in a thirteenth month
MONTH_13_LINE ==
    RawLine(LIEN_TEXT, PARKVIEW_HOA, <<"1","3","/","0","1","/","2","0","2","3">>, <<"5","0","0","0">>)

\* a record line whose amount has cents: "... | 01/15/2023 | $1,234.56"
CENTS_LINE ==
    RawLine(MTG_TEXT, SHOAL_CREEK_BANK, JANUARY_15, <<"$","1",",","2","3","4",".","5","6">>)

SearchLines == {MTG_LINE, SUNSET_LINE, MONTH_13_LINE, CENTS_LINE, HEADING}

\* the arguments of search_liens; parcel_id is None, '' or a parcel number
Requests ==
    { [address |-> "123 Main St", parcel_id |-> p] : p \in {<<>>, <<"">>, <<"2517790">>} }

\* the JSON body Firecrawl answers with; a key it lacks is <<>>.  data holds
\* markdown and, under actions.screenshots, a list of URLs
Bodies ==
    { [success |-> <<FALSE>>, error |-> <<"Rate limit exceeded">>, data |-> <<>>],
      [success |-> <<FALSE>>, error |-> <<>>, data |-> <<>>],
      [success |-> <<>>, error |-> <<>>, data |-> <<>>],
      [success |-> <<TRUE>>, error |-> <<>>, data |-> <<>>],
      [success |-> <<TRUE>>, error |-> <<>>,
       data |-> <<[markdown |-> <<>>, screenshots |-> <<>>]>>] }
    \cup { [success |-> <<TRUE>>, error |-> <<>>,
            data |-> <<[markdown |-> <<lines>>, screenshots |-> shots]>>] :
             lines \in SeqsUpTo(SearchLines, MaxSearchLines),
             shots \in {<<>>, <<<<>>>>, <<<<"https://example.com/screenshot.png">>>>} }

\* what requests.post can end in: an exception, or a response with a status
\* and a text that is JSON (json is <<the body>>) or is not (json is <<>>)
HttpResponses ==
    { [raised |-> TRUE] }
    \cup { [raised |-> FALSE, status_code |-> c, json |-> <<>>] : c \in {200, 201, 302, 404, 500} }
    \cup { [raised |-> FALSE, status_code |-> 200, json |-> <<b>>] : b \in Bodies }

\* FirecrawlClient.scrape: how the call ends.  returned is <<the dict>>, or
\* <<>> for None when the function falls off its end
scrape(response) ==
    IF response.raised
    THEN [raised |-> TRUE, error |-> "ConnectionError"]
    ELSE IF response.status_code = 200
    THEN IF response.json = <<>>
         THEN [raised |-> TRUE, error |-> "JSONDecodeError"]
         ELSE [raised |-> FALSE, returned |-> response.json]
    ELSE IF response.status_code >= 400 /\ response.status_code < 600
    THEN [raised |-> TRUE, error |-> "HTTPError"]
    ELSE [raised |-> FALSE, returned |-> <<>>]

\* the text always taken from the address
SearchText_Address(req) == req.address

\* search_text = parcel_id if parcel_id else address
SearchText(req) ==
    IF req.parcel_id # <<>> /\ req.parcel_id[1] # "" THEN req.parcel_id[1]
    ELSE req.address

\* the dict of the else branch and of the except branch
SearchFailure(req, error) == [success |-> FALSE, error |-> error, address |-> req.address]

\* a search that lets the exception of the scrape call pass
search_liens_Uncaught(req, outcome) ==
    IF outcome.raised \/ outcome.returned = <<>>
    THEN [raised |-> TRUE]
    ELSE SearchFailure(req, "Unknown error")

\* search_liens from the scrape call on: the try block and its except
search_liens(req, outcome) ==
    IF outcome.raised
    THEN SearchFailure(req, outcome.error)
    ELSE IF outcome.returned = <<>>
    THEN SearchFailure(req, "'NoneType' object has no attribute 'get'")
    ELSE
    LET body == outcome.returned[1]
    IN  IF body.success = <<>> \/ ~body.success[1]
        THEN SearchFailure(req, GetOr(body.error, "Unknown error"))
        ELSE IF body.data = <<>>
        THEN SearchFailure(req, "'data'")
        ELSE IF body.data[1].markdown = <<>>
        THEN SearchFailure(req, "'markdown'")
        ELSE IF body.data[1].screenshots = <<<<>>>>
        THEN SearchFailure(req, "list index out of range")
        ELSE
        LET lines   == body.data[1].markdown[1]
            matches == [i \in 1..Len(lines) |-> Search(lines[i])]
        IN  IF parse_liens_raises(matches)
            THEN SearchFailure(req, "time data does not match format '%m/%d/%Y'")
            ELSE [success |-> TRUE,
                  address |-> req.address,
                  parcel_id |-> req.parcel_id,
                  liens |-> parse_liens(matches),
                  total_liens |-> Len(parse_liens(matches)),
                  screenshot |-> IF body.data[1].screenshots = <<>> THEN <<>>
                                 ELSE <<body.data[1].screenshots[1][1]>>,
                  raw_markdown |-> lines,
                  search_timestamp |-> now]

InitSearch ==
    /\ pc = "search_liens"
    /\ request \in {<<r>> : r \in Requests}
    /\ search_text = <<>>
    /\ scraped = <<>>
    /\ search_result = <<>>
    /\ AcclaimIdle
    /\ WorkflowIdle
    /\ AmountIdle
    /\ AgentIdle

\* search_liens builds the browser actions, the write action among them
BuildActions ==
    /\ pc = "search_liens"
    /\ search_text' = <<SearchText(request[1])>>
    /\ pc' = "scrape"
    /\ UNCHANGED <<request, scraped, search_result, acclaimVars, workflowVars,
                   amountVars, agentVars>>

\* result = self.firecrawl.scrape(...)
Scrape ==
    /\ pc = "scrape"
    /\ \E response \in HttpResponses : scraped' = <<scrape(response)>>
    /\ pc' = "scraped"
    /\ UNCHANGED <<request, search_text, search_result, acclaimVars, workflowVars,
                   amountVars, agentVars>>

\* the rest of the try block, or the except branch, and the return
ReturnSearch ==
    /\ pc = "scraped"
    /\ search_result' = <<search_liens(request[1], scraped[1])>>
    /\ pc' = "searched"
    /\ UNCHANGED <<request, search_text, scraped, acclaimVars, workflowVars,
                   amountVars, agentVars>>

NextSearch == BuildActions \/ Scrape \/ ReturnSearch

SpecSearch == InitSearch /\ [][NextSearch]_vars

(***************************************************************************)
(* A line with a date that is no calendar date.                            *)
(***************************************************************************)
Searched == pc = "searched" /\ search_result # <<>>

\* the scrape call returned a page: a success body with markdown, and no
\* empty screenshot list
PageScraped ==
    /\ scraped # <<>>
    /\ ~scraped[1].raised
    /\ scraped[1].returned # <<>>
    /\ scraped[1].returned[1].success = <<TRUE>>
    /\ scraped[1].returned[1].data # <<>>
    /\ scraped[1].returned[1].data[1].markdown # <<>>
    /\ scraped[1].returned[1].data[1].screenshots # <<<<>>>>

PageLines == scraped[1].returned[1].data[1].markdown[1]

\* the record lines of SearchLines, each with its type and grantor; the
\* third is structurally a record line, dated 13/01/2023
RecordLines ==
    { <<MTG_LINE, "MTG", WELLS_FARGO_BANK_NA>>,
      <<SUNSET_LINE, "LIEN", SUNSET_LOWER>>,
      <<MONTH_13_LINE, "LIEN", PARKVIEW_HOA>> }

ParcelGiven == request # <<>> /\ request[1].parcel_id # <<>> /\ request[1].parcel_id[1] # ""

ActionsBuilt == pc \in {"scrape", "scraped", "searched"}

\* C22: the text search_liens enters in the search field is the parcel_id
\* whenever one is given and the address only when none is, and the result,
\* successful or failed, echoes the address unchanged either way.
C22_ParcelIdBeforeAddress ==
    /\ (ActionsBuilt /\ ParcelGiven) => search_text = request[1].parcel_id
    /\ (ActionsBuilt /\ ~ParcelGiven) => search_text = <<request[1].address>>
    /\ Searched => search_result[1].address = request[1].address

C22_Witness ==
    /\ Searched
    /\ request[1].parcel_id = <<"2517790">>
    /\ search_text = <<"2517790">>
    /\ search_result[1].success
    /\ search_result[1].address = "123 Main St"

(***************************************************************************)
(* The order of the extracted records.                                     *)
(***************************************************************************)
\* the day of a date on the calendar, as one number
CalendarKey(d) == d[3] * 10000 + d[1] * 100 + d[2]

\* the records of the text in the order of their lines, before the sort
InLineOrder == Classify(Extracted([i \in 1..Len(markdown) |-> Search(markdown[i])]))

\* s holds the entries of u, p[i] being the place in u of s[i], in ascending
\* calendar order, entries of one date in the order they have in u
StablySorted(s, u, p) ==
    /\ \A i \in 1..Len(s) : s[i] = u[p[i]]
    /\ \A i \in 1..Len(s), j \in 1..Len(s) :
           i < j =>
               \/ CalendarKey(s[i].recorded_date) < CalendarKey(s[j].recorded_date)
               \/ /\ CalendarKey(s[i].recorded_date) = CalendarKey(s[j].recorded_date)
                  /\ p[i] < p[j]

\* C23: _parse_liens returns its records in ascending order of recorded date,
\* the dates compared as calendar dates and not as text (12/01/2022 before
\* 01/15/2023), and records of the same date keep the order of their lines.
C23_AscendingByCalendarDateStable ==
    Extracting =>
        /\ Len(liens) = Len(InLineOrder)
        /\ \E p \in [1..Len(liens) -> 1..Len(liens)] :
               /\ \A i \in 1..Len(liens), j \in 1..Len(liens) : i # j => p[i] # p[j]
               /\ StablySorted(liens, InLineOrder, p)

C23_Witness ==
    /\ Extracting
    /\ markdown = <<MTG_LINE, PARKVIEW_LINE, SUNSET_LINE>>
    /\ Len(liens) = 3
    /\ liens[1].recorded_date = <<12, 1, 2022>> /\ liens[1].grantor = SUNSET_LOWER
    /\ liens[2].recorded_date = <<1, 15, 2023>> /\ liens[2].grantor = WELLS_FARGO_BANK_NA
    /\ liens[3].recorded_date = <<1, 15, 2023>> /\ liens[3].grantor = PARKVIEW_HOA

(***************************************************************************)
(* The amount of a record and the amount field of its line.                *)
(***************************************************************************)
\* the well-formed lines of SearchLines with the grantor that tells their
\* records apart
AmountLines ==
    { <<MTG_LINE, WELLS_FARGO_BANK_NA>>,
      <<SUNSET_LINE, SUNSET_LOWER>>,
      <<CENTS_LINE, SHOAL_CREEK_BANK>> }

\* the value of the whole amount field of a line, as _parse_amount gives it
\* for the field: units / 10^scale
FieldAmount(line) == parse_amount_value(line[7])

\* C24 as stated: the amount of the record of a well-formed line is the value
\* of the line's whole amount field with "$" and "," removed, the fractional
\* part included: "$1,234.56" gives 1234.56.
C24_AmountOfTheWholeField ==
    (Searched /\ PageScraped /\ search_result[1].success) =>
        \A w \in AmountLines :
            \A j \in 1..Len(search_result[1].liens) :
                search_result[1].liens[j].grantor = w[2] =>
                    search_result[1].liens[j].amount * Pow10(FieldAmount(w[1]).scale)
                    = FieldAmount(w[1]).units

(***************************************************************************)
(* search_liens always returns a result.                                   *)
(***************************************************************************)
\* C26: search_liens never raises: whatever the scrape call ends in (a
\* success body, success false, a body lacking fields, no return value, an
\* exception) and whatever the parse ends in, it returns a result whose
\* success is a boolean; a successful result has total_liens equal to the
\* number of its liens, a failed one has an error text and the address and
\* no liens.
C26_AlwaysAResultWithSuccess ==
    Searched =>
        /\ "success" \in DOMAIN search_result[1]
        /\ search_result[1].success \in BOOLEAN
        /\ search_result[1].success =>
               /\ {"liens", "total_liens"} \subseteq DOMAIN search_result[1]
               /\ search_result[1].total_liens = Len(search_result[1].liens)
        /\ ~search_result[1].success =>
               /\ DOMAIN search_result[1] = {"success", "error", "address"}
               /\ search_result[1].error \in STRING
               /\ search_result[1].error # ""
               /\ search_result[1].address = request[1].address

\* the scrape call came back without a return value, and the search failed
\* with the text of the AttributeError
C26_Witness ==
    /\ Searched
    /\ scraped[1] = [raised |-> FALSE, returned |-> <<>>]
    /\ search_result[1] = [success |-> FALSE,
                           error |-> "'NoneType' object has no attribute 'get'",
                           address |-> "123 Main St"]

(***************************************************************************)
(* How FirecrawlClient.scrape ends for each HTTP status.                   *)
(***************************************************************************)
\* C27 as stated: scrape returns the parsed body exactly when the HTTP status
\* is 200 and ends with a raised error for every other status, the other 2xx
\* and the 3xx included; it never returns normally without a body.
C27_BodyFor200ErrorOtherwise ==
    \A response \in HttpResponses :
        (pc = "scraped" /\ ~response.raised /\ scraped = <<scrape(response)>>) =>
            /\ (response.status_code = 200 /\ response.json # <<>>) =>
                   scraped[1] = [raised |-> FALSE, returned |-> response.json]
            /\ response.status_code # 200 => scraped[1].raised
            /\ ~scraped[1].raised => scraped[1].returned # <<>>

(***************************************************************************)
(* The recommendation and the warnings of one result.                      *)
(***************************************************************************)
Combined == pc \in {"returned", "repeated"} /\ result # <<>> /\ result[1].success

WarningsOf(r) == r.investment_analysis.warnings

HasWarning(r, type, severity) ==
    \E i \in 1..Len(WarningsOf(r)) :
        WarningsOf(r)[i].type = type /\ WarningsOf(r)[i].severity = severity

\* C28: in every successful result of _combine_results the recommendation is
\* BID exactly when there is no warning, REVIEW only when the one warning is
\* COMPLEX_TITLE, and SKIP exactly when a CRITICAL (HOA_FORECLOSURE_RISK) or a
\* HIGH (INSUFFICIENT_EQUITY) warning is present.
C28_RecommendationAgreesWithWarnings ==
    Combined =>
        /\ result[1].investment_analysis.recommendation \in {"BID", "REVIEW", "SKIP"}
        /\ result[1].investment_analysis.recommendation = "BID"
               <=> WarningsOf(result[1]) = <<>>
        /\ result[1].investment_analysis.recommendation = "REVIEW" =>
               /\ Len(WarningsOf(result[1])) = 1
               /\ WarningsOf(result[1])[1].type = "COMPLEX_TITLE"
        /\ result[1].investment_analysis.recommendation = "SKIP"
               <=> \/ HasWarning(result[1], "HOA_FORECLOSURE_RISK", "CRITICAL")
                   \/ HasWarning(result[1], "INSUFFICIENT_EQUITY", "HIGH")

\* three mortgages on a property with equity left: REVIEW with the one warning
C28_Witness ==
    /\ Combined
    /\ result[1].lien_analysis.mortgages = 3
    /\ result[1].investment_analysis.recommendation = "REVIEW"
    /\ Len(WarningsOf(result[1])) = 1
    /\ WarningsOf(result[1])[1].type = "COMPLEX_TITLE"

(***************************************************************************)
(* IntegratedLienDiscovery.discover_liens on documents that lack a key.    *)
(***************************************************************************)
MaxShapedDocs == 2

\* a document as the prompt asks for it, one without its amount, one without
\* its hoa_lien flag, one without its document_type
ShapedDocuments ==
    { [document_type |-> "MTG", amount |-> 50000, hoa_lien |-> FALSE],
      [document_type |-> "LIEN", hoa_lien |-> TRUE],
      [document_type |-> "JUDG", amount |-> 50000],
      [amount |-> 50000, hoa_lien |-> FALSE] }

ShapedAgentResponses ==
    { [raised |-> TRUE],
      [raised |-> FALSE, status_code |-> 500],
      [raised |-> FALSE, status_code |-> 200, output |-> [documents |-> <<>>]] }
    \cup { [raised |-> FALSE, status_code |-> 200, output |-> [documents |-> <<docs>>]] :
             docs \in SeqsUpTo(ShapedDocuments, MaxShapedDocs) }

\* lien['document_type'] on a document without the key: KeyError, in the
\* comprehension that collects the mortgages
combine_results_raises(acclaimweb) ==
    /\ acclaimweb.success
    /\ \E i \in 1..Len(GetOr(acclaimweb.agent_result.documents, <<>>)) :
           "document_type" \notin DOMAIN GetOr(acclaimweb.agent_result.documents, <<>>)[i]

\* Step 2, the agent's documents in every shape
SearchAcclaimwebShaped ==
    /\ pc = "search"
    /\ \E response \in ShapedAgentResponses :
        acclaimweb_result' = <<search_acclaimweb(response)>>
    /\ pc' = "combine"
    /\ UNCHANGED <<amountVars, searchVars, agentVars, acclaimVars, bcpao_data, result, repeated, now>>

\* Step 3 and the end of discover_liens, which has no try of its own: the
\* dict of _combine_results, or the exception it raised
CombineShaped ==
    /\ pc = "combine"
    /\ result' = IF combine_results_raises(acclaimweb_result[1])
                 THEN << [raised |-> TRUE, error |-> "KeyError: 'document_type'"] >>
                 ELSE << combine_results(bcpao_data[1], acclaimweb_result[1]) >>
    /\ now' = now + 1
    /\ pc' = "returned"
    /\ UNCHANGED <<amountVars, searchVars, agentVars, acclaimVars, bcpao_data, acclaimweb_result, repeated>>

NextShaped == GetOwnerFromBcpao \/ SearchAcclaimwebShaped \/ CombineShaped

SpecShaped == InitWorkflow /\ [][NextShaped]_vars

\* C29 as stated: discover_liens never raises: whatever the valuation lookup
\* and the lien search end in, and whatever the shape of the documents (no
\* documents key, documents without document_type or without amount), it
\* returns a result whose success is a boolean, and a result with success
\* false carries an error text.
C29_AlwaysAResult ==
    (pc = "returned" /\ result # <<>>) =>
        /\ "success" \in DOMAIN result[1]
        /\ result[1].success \in BOOLEAN
        /\ ~result[1].success =>
               /\ "error" \in DOMAIN result[1]
               /\ result[1].error \in STRING

(***************************************************************************)
(* The orchestrator (src/agents/orchestrator.py): the eight nodes and      *)
(* run_agent.  The state dict is a record; a property dict is a record     *)
(* whose optional keys hold <<>> while absent; a message is kept as its    *)
(* role.  Timestamps are left out: no node reads them.  Money is whole     *)
(* dollars, the ML score is in thousandths; the amounts drawn below are    *)
(* ones for which the float arithmetic of the source is exact.             *)
(***************************************************************************)
MaxProperties == 2

Min(a, b) == IF a <= b THEN a ELSE b

LowerChar(c) ==
    IF \E i \in 1..Len(UpperCase) : UpperCase[i] = c
    THEN LowerCase[CHOOSE i \in 1..Len(UpperCase) : UpperCase[i] = c]
    ELSE c

\* str.lower()
Lower(s) == [i \in 1..Len(s) |-> LowerChar(s[i])]

\* any(w in text for w in words)
AnyIn(words, text) == \E w \in words : Contains(text, w)

\* a row of auction_results as fetch_properties_node receives it
Row(case_number, plaintiff, judgment_amount) ==
    [case_number |-> case_number, property_address |-> "923 Slocum St, Palm Bay",
     plaintiff |-> plaintiff, judgment_amount |-> judgment_amount,
     bcpao_account |-> <<>>, assessed_value |-> <<>>, max_bid |-> <<>>,
     ml_score |-> <<>>, recommendation |-> <<>>, has_senior_mortgage |-> <<>>,
     lien_notes |-> <<>>]

Rows ==
    { Row("05-2024-CA-000001", WELLS_FARGO_BANK_NA, 100000),
      Row("05-2024-CA-000002", PARKVIEW_HOA, 100000),
      Row("05-2024-CA-000003", SHOAL_CREEK_BANK, 10000),
      Row("05-2024-CA-000004", SUNSET_LOWER, 0) }

Queries ==
    { <<"S","h","o","w"," ","m","e"," ","B","I","D"," ","p","r","o","p","e","r","t","i","e","s"," ","f","o","r"," ","J","a","n"," ","7">>,
      <<"A","n","a","l","y","z","e"," ","9","2","3"," ","S","l","o","c","u","m"," ","S","t"," ","P","a","l","m"," ","B","a","y">>,
      <<"R","u","n"," ","p","i","p","e","l","i","n","e"," ","o","n"," ","n","e","x","t"," ","a","u","c","t","i","o","n">>,
      <<"H","e","l","l","o">> }

\* what the Supabase query can end in
FetchOutcomes ==
    { [raised |-> TRUE], [raised |-> FALSE, status_code |-> 500] }
    \cup { [raised |-> FALSE, status_code |-> 200, json |-> rows] :
             rows \in SeqsUpTo(Rows, MaxProperties) }

\* what the BCPAO query can end in; JV is the just value or None
EnrichOutcomes ==
    { [raised |-> TRUE],
      [raised |-> FALSE, status_code |-> 500],
      [raised |-> FALSE, status_code |-> 200, features |-> <<>>] }
    \cup { [raised |-> FALSE, status_code |-> 200,
            features |-> <<[ACCT |-> <<"2517790">>, JV |-> jv]>>] :
             jv \in {<<>>, <<200000>>, <<400000>>} }

\* everything outside run_agent: the import of langgraph, the environment,
\* the query, and what each request ends in
Worlds ==
    [ langgraph : BOOLEAN, supabase_key : BOOLEAN, query : Queries,
      fetch : FetchOutcomes, enrich : EnrichOutcomes, save_raises : BOOLEAN ]

\* initial_state of run_agent
initial_state(query) ==
    [query |-> query, intent |-> <<>>, properties |-> <<>>,
     current_property |-> <<>>, analysis_results |-> <<>>, errors |-> <<>>,
     messages |-> <<>>, stage |-> 0, status |-> "initialized"]

\* the first branch of the if / elif chain whose words the query holds
IntentType(query) ==
    IF AnyIn({<<"s","h","o","w">>, <<"f","i","n","d">>, <<"l","i","s","t">>, <<"g","e","t">>}, query) THEN "search"
    ELSE IF AnyIn({<<"a","n","a","l","y","z","e">>, <<"a","n","a","l","y","s","i","s">>, <<"r","e","s","e","a","r","c","h">>}, query) THEN "analyze"
    ELSE IF AnyIn({<<"p","i","p","e","l","i","n","e">>, <<"r","u","n">>, <<"e","x","e","c","u","t","e">>}, query) THEN "pipeline"
    ELSE IF AnyIn({<<"l","i","e","n">>, <<"t","i","t","l","e">>, <<"m","o","r","t","g","a","g","e">>}, query) THEN "lien_analysis"
    ELSE IF AnyIn({<<"p","l","a","i","n","t","i","f","f">>, <<"b","a","n","k">>, <<"s","e","r","v","i","c","e","r">>}, query) THEN "plaintiff_analysis"
    ELSE "general"

\* Node 1.  The filters of the intent only shape the URL of the fetch, whose
\* answer is drawn from FetchOutcomes; they are not kept
parse_query_node(st) ==
    [st EXCEPT !.intent = <<[type |-> IntentType(Lower(st.query))]>>,
               !.stage = 1,
               !.status = "query_parsed",
               !.messages = Append(@, "system")]

\* Node 2
fetch_properties_node(st, w) ==
    IF ~w.supabase_key
    THEN [st EXCEPT !.errors = Append(@, "SUPABASE_KEY not configured"),
                    !.status = "error"]
    ELSE IF w.fetch.raised
    THEN [st EXCEPT !.errors = Append(@, "Fetch error"), !.stage = 2]
    ELSE IF w.fetch.status_code = 200
    THEN [st EXCEPT !.properties = w.fetch.json,
                    !.status = "properties_fetched",
                    !.messages = Append(@, "system"),
                    !.stage = 2]
    ELSE [st EXCEPT !.errors = Append(@, "Supabase error"), !.stage = 2]

\* state["current_property"] = prop.  The dict is the one properties[0]
\* refers to, so what a node writes into it shows in the list as well
WithProperty(st, prop) ==
    [st EXCEPT !.current_property = <<prop>>,
               !.properties = [@ EXCEPT ![1] = prop]]

\* Node 3
enrich_property_node(st, w) ==
    IF st.current_property = <<>> THEN st
    ELSE IF w.enrich.raised
    THEN [st EXCEPT !.errors = Append(@, "BCPAO enrichment error"), !.stage = 3]
    ELSE IF w.enrich.status_code = 200 /\ w.enrich.features # <<>>
    THEN [WithProperty(st, [st.current_property[1] EXCEPT
                               !.bcpao_account = w.enrich.features[1].ACCT,
                               !.assessed_value = w.enrich.features[1].JV])
             EXCEPT !.messages = Append(@, "system"), !.stage = 3]
    ELSE [st EXCEPT !.stage = 3]

AGENT_HOA_KEYWORDS ==
    {<<"H","O","A">>, <<"H","O","M","E","O","W","N","E","R","S">>, <<"C","O","N","D","O","M","I","N","I","U","M">>, <<"A","S","S","O","C","I","A","T","I","O","N">>, <<"C","O","A">>, <<"P","O","A">>}

\* Node 4
lien_analysis_node(st) ==
    IF st.current_property = <<>> THEN st
    ELSE IF AnyIn(AGENT_HOA_KEYWORDS, Upper(st.current_property[1].plaintiff))
    THEN [WithProperty(st, [st.current_property[1] EXCEPT
                               !.has_senior_mortgage = <<TRUE>>,
                               !.lien_notes = <<"HOA foreclosure - senior mortgage likely survives">>,
                               !.recommendation = <<"SKIP">>])
             EXCEPT !.messages = Append(@, "warning"), !.stage = 4]
    ELSE [WithProperty(st, [st.current_property[1] EXCEPT
                               !.has_senior_mortgage = <<FALSE>>,
                               !.lien_notes = <<"Mortgage foreclosure - standard lien priority">>])
             EXCEPT !.stage = 4]

\* arv = prop.get("assessed_value") or prop.get("judgment_amount", 0) * 1.2
AgentArv(prop) ==
    IF prop.assessed_value # <<>> /\ prop.assessed_value[1] # 0
    THEN prop.assessed_value[1]
    ELSE (prop.judgment_amount * 12) \div 10

\* (ARV x 70%) - Repairs - $10K - MIN($25K, 15% of ARV), before max(0, .)
MaxBidFormula(arv) ==
    (arv * 70) \div 100 - (arv * 20) \div 100 - 10000 - Min(25000, (arv * 15) \div 100)

\* the branch the ratio (max_bid / judgment) * 100 takes; the ratio is 0
\* when the judgment is not positive
RatioRecommendation(max_bid, judgment) ==
    IF judgment > 0 /\ max_bid * 100 >= 75 * judgment THEN "BID"
    ELSE IF judgment > 0 /\ max_bid * 100 >= 60 * judgment THEN "REVIEW"
    ELSE "SKIP"

\* a recommendation written whatever the property already holds
NewRecommendation_Overriding(prop, by_ratio) == <<by_ratio>>

\* if prop.get("recommendation") != "SKIP": the recommendation by the ratio,
\* else the one the property holds
NewRecommendation(prop, by_ratio) ==
    IF prop.recommendation # <<"SKIP">> THEN <<by_ratio>> ELSE prop.recommendation

\* Node 5
calculate_max_bid_node(st) ==
    IF st.current_property = <<>> THEN st
    ELSE
    LET prop    == st.current_property[1]
        max_bid == Max(0, MaxBidFormula(AgentArv(prop)))
    IN  [WithProperty(st, [prop EXCEPT
                              !.max_bid = <<max_bid>>,
                              !.recommendation =
                                  NewRecommendation(prop,
                                      RatioRecommendation(max_bid, prop.judgment_amount))])
            EXCEPT !.messages = Append(@, "system"), !.stage = 5]

\* base_score by the plaintiff, in thousandths
BaseScore(plaintiff) ==
    IF AnyIn({<<"F","R","E","E","D","O","M">>, <<"L","A","K","E","V","I","E","W">>, <<"N","A","T","I","O","N","S","T","A","R">>, <<"M","R"," ","C","O","O","P","E","R">>, <<"N","E","W","R","E","Z">>}, plaintiff)
    THEN 750
    ELSE IF AnyIn({<<"H","O","A">>, <<"A","S","S","O","C","I","A","T","I","O","N">>, <<"T","A","X">>, <<"L","I","E","N">>}, plaintiff) THEN 150
    ELSE 500

\* Node 6
ml_scoring_node(st) ==
    IF st.current_property = <<>> THEN st
    ELSE
    LET prop  == st.current_property[1]
        base  == BaseScore(Upper(prop.plaintiff))
        score == IF prop.judgment_amount < 100000 THEN (base * 8) \div 10
                 ELSE IF prop.judgment_amount > 300000 THEN (base * 11) \div 10
                 ELSE base
    IN  [WithProperty(st, [prop EXCEPT !.ml_score = <<Min(990, Max(10, score))>>])
            EXCEPT !.messages = Append(@, "system"), !.stage = 6]

\* Node 7
generate_report_node(st) ==
    IF st.current_property = <<>> THEN st
    ELSE
    LET prop == st.current_property[1]
    IN  [st EXCEPT !.analysis_results =
                       Append(@, [case_number |-> prop.case_number,
                                  address |-> prop.property_address,
                                  judgment_amount |-> prop.judgment_amount,
                                  max_bid |-> prop.max_bid,
                                  ml_score |-> prop.ml_score,
                                  recommendation |-> prop.recommendation,
                                  lien_notes |-> prop.lien_notes]),
                   !.stage = 7,
                   !.status = "analysis_complete"]

\* Node 8: one post per report, each saved or failed
save_results_node(st, w) ==
    IF st.analysis_results = <<>> \/ ~w.supabase_key THEN st
    ELSE [st EXCEPT
             !.messages = IF w.save_raises THEN @
                          ELSE @ \o [i \in 1..Len(st.analysis_results) |-> "system"],
             !.errors = IF w.save_raises
                        THEN @ \o [i \in 1..Len(st.analysis_results) |-> "Save error"]
                        ELSE @,
             !.stage = 8,
             !.status = "complete"]

(***************************************************************************)
(* run_agent: the compiled graph of build_workflow, or the nodes one after *)
(* the other when langgraph is not installed.                              *)
(***************************************************************************)
AnalysisIntents == {"analyze", "pipeline"}

\* the edges of build_workflow: the node after node n, or "END"
GraphEdge(n, st) ==
    CASE n = "parse_query"       -> "fetch_properties"
      [] n = "fetch_properties"  -> IF st.intent[1].type \in AnalysisIntents
                                    THEN "enrich_property" ELSE "END"
      [] n = "enrich_property"   -> "lien_analysis"
      [] n = "lien_analysis"     -> "calculate_max_bid"
      [] n = "calculate_max_bid" -> "ml_scoring"
      [] n = "ml_scoring"        -> "generate_report"
      [] n = "generate_report"   -> "save_results"
      [] n = "save_results"      -> "END"

\* the fallback of run_agent: the statement after the call of node n
SequentialNext(n, st) ==
    CASE n = "parse_query"       -> "fetch_properties"
      [] n = "fetch_properties"  -> IF st.intent[1].type \in AnalysisIntents
                                       /\ st.properties # <<>>
                                    THEN "enrich_property" ELSE "END"
      [] n = "enrich_property"   -> "lien_analysis"
      [] n = "lien_analysis"     -> "calculate_max_bid"
      [] n = "calculate_max_bid" -> "ml_scoring"
      [] n = "ml_scoring"        -> "generate_report"
      [] n = "generate_report"   -> "save_results"
      [] n = "save_results"      -> "END"

\* what node n returns for the state st
NodeResult(n, st, w) ==
    CASE n = "parse_query"       -> parse_query_node(st)
      [] n = "fetch_properties"  -> fetch_properties_node(st, w)
      [] n = "enrich_property"   -> enrich_property_node(st, w)
      [] n = "lien_analysis"     -> lien_analysis_node(st)
      [] n = "calculate_max_bid" -> calculate_max_bid_node(st)
      [] n = "ml_scoring"        -> ml_scoring_node(st)
      [] n = "generate_report"   -> generate_report_node(st)
      [] n = "save_results"      -> save_results_node(st, w)

\* state["current_property"] = state["properties"][0], which only the
\* fallback does, before enrich_property_node
SequentialEnter(n, st) ==
    IF n = "enrich_property"
    THEN [st EXCEPT !.current_property = <<st.properties[1]>>]
    ELSE st

InitAgent ==
    /\ pc = "run_agent"
    /\ world \in {<<w>> : w \in Worlds}
    /\ path = <<>>
    /\ state = <<>>
    /\ AcclaimIdle
    /\ WorkflowIdle
    /\ AmountIdle
    /\ SearchIdle

\* run_agent up to the first node: the initial state, and the path taken
RunAgent ==
    /\ pc = "run_agent"
    /\ state' = <<initial_state(world[1].query)>>
    /\ path' = [kind |-> IF world[1].langgraph THEN "graph" ELSE "sequential",
                nodes |-> <<>>]
    /\ pc' = "parse_query"
    /\ UNCHANGED <<world, acclaimVars, workflowVars, amountVars, searchVars>>

\* node n runs, and the graph or the fallback goes on to the next
RunNode(n) ==
    /\ LET after == NodeResult(n, state[1], world[1])
           next  == IF path.kind = "graph" THEN GraphEdge(n, after)
                    ELSE SequentialNext(n, after)
       IN  /\ state' = << IF path.kind = "graph" THEN after
                          ELSE SequentialEnter(next, after) >>
           /\ pc' = IF next = "END" THEN "agent_done" ELSE next
    /\ path' = [path EXCEPT !.nodes = Append(@, n)]
    /\ UNCHANGED <<world, acclaimVars, workflowVars, amountVars, searchVars>>

ParseQueryNode ==
    /\ pc = "parse_query"
    /\ RunNode("parse_query")

FetchPropertiesNode ==
    /\ pc = "fetch_properties"
    /\ RunNode("fetch_properties")

EnrichPropertyNode ==
    /\ pc = "enrich_property"
    /\ RunNode("enrich_property")

LienAnalysisNode ==
    /\ pc = "lien_analysis"
    /\ RunNode("lien_analysis")

CalculateMaxBidNode ==
    /\ pc = "calculate_max_bid"
    /\ RunNode("calculate_max_bid")

MlScoringNode ==
    /\ pc = "ml_scoring"
    /\ RunNode("ml_scoring")

GenerateReportNode ==
    /\ pc = "generate_report"
    /\ RunNode("generate_report")

SaveResultsNode ==
    /\ pc = "save_results"
    /\ RunNode("save_results")


NextAgent ==
    \/ RunAgent
    \/ ParseQueryNode
    \/ FetchPropertiesNode
    \/ EnrichPropertyNode
    \/ LienAnalysisNode
    \/ CalculateMaxBidNode
    \/ MlScoringNode
    \/ GenerateReportNode
    \/ SaveResultsNode

SpecAgent == InitAgent /\ [][NextAgent]_vars

(***************************************************************************)
(* The SKIP of an association foreclosure.                                 *)
(***************************************************************************)
\* lien_analysis_node has run on a current property
LienAnalysed ==
    /\ path # <<>>
    /\ \E i \in 1..Len(path.nodes) : path.nodes[i] = "lien_analysis"
    /\ state[1].current_property # <<>>

\* the plaintiff of the current property holds an association keyword
AssociationPlaintiff ==
    \E kw \in AGENT_HOA_KEYWORDS :
        Contains(Upper(state[1].current_property[1].plaintiff), kw)

\* C25: once lien_analysis_node has set SKIP because the plaintiff matches an
\* association keyword, calculate_max_bid_node never changes it, and the
\* report carries SKIP whatever the bid/judgment ratio is; max_bid is never
\* negative.
C25_AssociationSkipIsKept ==
    /\ (LienAnalysed /\ AssociationPlaintiff) =>
           /\ state[1].current_property[1].recommendation = <<"SKIP">>
           /\ \A i \in 1..Len(state[1].analysis_results) :
                  state[1].analysis_results[i].recommendation = <<"SKIP">>
    /\ state # <<>> =>
           /\ \A i \in 1..Len(state[1].properties) :
                  state[1].properties[i].max_bid # <<>> =>
                      state[1].properties[i].max_bid[1] >= 0
           /\ \A i \in 1..Len(state[1].analysis_results) :
                  state[1].analysis_results[i].max_bid # <<>> =>
                      state[1].analysis_results[i].max_bid[1] >= 0

\* an association forecloses on a judgment of 100000; the bid of 165000 is
\* 165% of it, and the report says SKIP
C25_Witness ==
    /\ pc = "agent_done"
    /\ LienAnalysed
    /\ state[1].current_property[1].plaintiff = PARKVIEW_HOA
    /\ state[1].analysis_results # <<>>
    /\ state[1].analysis_results[1].judgment_amount = 100000
    /\ state[1].analysis_results[1].max_bid = <<165000>>
    /\ state[1].analysis_results[1].recommendation = <<"SKIP">>

(***************************************************************************)
(* The two paths of run_agent side by side.                                *)
(***************************************************************************)
RECURSIVE RunPath(_, _, _, _)
\* the run of one path from node n on: the nodes it calls, in order, and the
\* state it returns
RunPath(kind, n, st, w) ==
    IF n = "END" THEN [nodes |-> <<>>, state |-> st]
    ELSE LET after == NodeResult(n, st, w)
             next  == IF kind = "graph" THEN GraphEdge(n, after)
                      ELSE SequentialNext(n, after)
             rest  == RunPath(kind, next,
                              IF kind = "graph" THEN after
                              ELSE SequentialEnter(next, after), w)
         IN  [nodes |-> <<n>> \o rest.nodes, state |-> rest.state]

\* run_agent on the path of that kind
run_agent(kind, w) == RunPath(kind, "parse_query", initial_state(w.query), w)

AgentDone == pc = "agent_done"

\* C30 as stated: the compiled graph and the sequential fallback of run_agent
\* run the same nodes in the same order and end in the same stage, status and
\* analysis_results; a query of intent analyze or pipeline with at least one
\* fetched property ends, on the path taken, with one report, the report of
\* the first property, at stage 8 with status complete.
C30_GraphAndFallbackAgree ==
    AgentDone =>
        /\ run_agent("graph", world[1]).nodes = run_agent("sequential", world[1]).nodes
        /\ run_agent("graph", world[1]).state.stage
               = run_agent("sequential", world[1]).state.stage
        /\ run_agent("graph", world[1]).state.status
               = run_agent("sequential", world[1]).state.status
        /\ run_agent("graph", world[1]).state.analysis_results
               = run_agent("sequential", world[1]).state.analysis_results
        /\ (state[1].intent[1].type \in AnalysisIntents /\ state[1].properties # <<>>) =>
               /\ Len(state[1].analysis_results) = 1
               /\ state[1].analysis_results[1].case_number
                      = state[1].properties[1].case_number
               /\ state[1].stage = 8
               /\ state[1].status = "complete"

=============================================================================
